---- MODULE Spec2Model ----
(***************************************************************************)
(* Event-triage pipeline: the event router (agents/services/               *)
(* event_router.py), the rule-based analysis agent (agents/services/       *)
(* ai_agent_service.py), the two action executors                          *)
(* (Legacy_folder/agent_api.py ActionExecutor, agents/views.py             *)
(* execute_action), the payload validator (agents/services/                *)
(* validation_module.py), the exception middleware (agents/services/       *)
(* exception_middleware.py) and the analyse-decide-execute pipeline that   *)
(* joins them.                                                             *)
(*                                                                         *)
(* Enum members are written by their Python names ("SECURITY_ISSUE"),      *)
(* their values by the value strings ("security_issue"); the conversion    *)
(* between the two is the enum's value table.  Python strings that the     *)
(* code searches in are sequences of one-character strings.                *)
(***************************************************************************)
EXTENDS Integers, Sequences, FiniteSets, TLC

VARIABLES
    custom_rules,    \* EventRouter.custom_rules, in dict iteration order
    routing_rules,   \* EventRouter.routing_rules
    routed,          \* the last EventRouter.route call: its event and decision
    calls,           \* the calls in progress on one EventRouter, per calling thread
    payload,         \* the payload of the last AnalysisAgent.analyze call
    analysis,        \* the AnalysisResult of that call
    settings,        \* django.conf.settings as the executors read it
    request,         \* the decision data of the execute call being served
    clock,           \* datetime.utcnow()
    executor,        \* an ActionExecutor instance
    effects,         \* the side effects of that call, in order
    outcome,         \* what that call returned (or raised)
    schema,          \* PayloadValidator.schema
    validated,       \* the last PayloadValidator.validate call
    middleware,      \* an AIAgentExceptionMiddleware instance
    handling,        \* the process_exception call in progress
    urlconf,         \* agents/views.py as imported, agents/urls.py, the request served
    pipeline         \* one event taken from analysis to execution

vars == <<custom_rules, routing_rules, routed, calls, payload, analysis,
          settings, clock, executor, request, effects, outcome,
          schema, validated, middleware, handling, pipeline, urlconf>>

routerVars == <<custom_rules, routing_rules, routed, calls>>
analysisVars == <<payload, analysis>>
executorVars == <<settings, clock, executor, request, effects, outcome>>
validatorVars == <<schema, validated>>
middlewareVars == <<middleware, handling>>
otherVars == <<validatorVars, middlewareVars, pipeline, urlconf>>

(***************************************************************************)
(* event_router.py: type definitions                                       *)
(***************************************************************************)

EventType ==
    [VALIDATION_ERROR  |-> "validation_error",
     SYSTEM_ERROR      |-> "system_error",
     SECURITY_ISSUE    |-> "security_issue",
     PERFORMANCE_ISSUE |-> "performance_issue",
     IGNORABLE         |-> "ignorable"]

SeverityLevel ==
    [LOW |-> "low", MEDIUM |-> "medium", HIGH |-> "high", CRITICAL |-> "critical"]

ActionType ==
    [LOG_ONLY         |-> "log_only",
     NOTIFY_ADMIN     |-> "notify_admin",
     TRIGGER_WORKFLOW |-> "trigger_workflow",
     ESCALATE         |-> "escalate"]

\* Enum(value): the member with that value; a ValueError when there is none.
IsValueOf(enum, value) == \E m \in DOMAIN enum : enum[m] = value

MemberOf(enum, value) == CHOOSE m \in DOMAIN enum : enum[m] = value

(***************************************************************************)
(* EventRouter construction                                                *)
(***************************************************************************)

DefaultRoutingRulesBadCell ==
    [SECURITY_ISSUE |->
        [CRITICAL |-> <<"ESCALATE", 1>>, HIGH |-> <<"ESCALATE", 1>>,
         MEDIUM |-> <<"NOTIFY_ADMIN", 2>>, LOW |-> <<"NOTIFY_ADMIN", 3>>],
     SYSTEM_ERROR |->
        [CRITICAL |-> <<"ESCALATE", 1>>, HIGH |-> <<"TRIGGER_WORKFLOW", 2>>,
         MEDIUM |-> <<"NOTIFY_ADMIN", 3>>, LOW |-> <<"LOG_ONLY", 4>>],
     PERFORMANCE_ISSUE |->
        [CRITICAL |-> <<"ESCALATE", 1>>, HIGH |-> <<"TRIGGER_WORKFLOW", 2>>,
         MEDIUM |-> <<"NOTIFY_ADMIN", 3>>, LOW |-> <<"LOG_ONLY", 4>>],
     VALIDATION_ERROR |->
        [CRITICAL |-> <<"NOTIFY_ADMIN", 3>>, HIGH |-> <<"NOTIFY_ADMIN", 3>>,
         MEDIUM |-> <<"LOG_ONLY", 4>>, LOW |-> <<"LOG_ONLY", 5>>],
     IGNORABLE |->
        [CRITICAL |-> <<"LOG_ONLY", 5>>, HIGH |-> <<"LOG_ONLY", 5>>,
         MEDIUM |-> <<"LOG_ONLY", 5>>, LOW |-> <<"LOG_ONLY", 5>>]]

DefaultRoutingRulesLowFirst ==
    [SECURITY_ISSUE |->
        [CRITICAL |-> <<"ESCALATE", 1>>, HIGH |-> <<"ESCALATE", 1>>,
         MEDIUM |-> <<"NOTIFY_ADMIN", 2>>, LOW |-> <<"NOTIFY_ADMIN", 3>>],
     SYSTEM_ERROR |->
        [CRITICAL |-> <<"ESCALATE", 1>>, HIGH |-> <<"TRIGGER_WORKFLOW", 2>>,
         MEDIUM |-> <<"NOTIFY_ADMIN", 3>>, LOW |-> <<"LOG_ONLY", 4>>],
     PERFORMANCE_ISSUE |->
        [CRITICAL |-> <<"TRIGGER_WORKFLOW", 2>>, HIGH |-> <<"TRIGGER_WORKFLOW", 2>>,
         MEDIUM |-> <<"NOTIFY_ADMIN", 3>>, LOW |-> <<"LOG_ONLY", 4>>],
     VALIDATION_ERROR |->
        [CRITICAL |-> <<"NOTIFY_ADMIN", 3>>, HIGH |-> <<"NOTIFY_ADMIN", 3>>,
         MEDIUM |-> <<"LOG_ONLY", 5>>, LOW |-> <<"LOG_ONLY", 4>>],
     IGNORABLE |->
        [CRITICAL |-> <<"LOG_ONLY", 5>>, HIGH |-> <<"LOG_ONLY", 5>>,
         MEDIUM |-> <<"LOG_ONLY", 5>>, LOW |-> <<"LOG_ONLY", 5>>]]

DefaultRoutingRules ==
    [SECURITY_ISSUE |->
        [CRITICAL |-> <<"ESCALATE", 1>>, HIGH |-> <<"ESCALATE", 1>>,
         MEDIUM |-> <<"NOTIFY_ADMIN", 2>>, LOW |-> <<"NOTIFY_ADMIN", 3>>],
     SYSTEM_ERROR |->
        [CRITICAL |-> <<"ESCALATE", 1>>, HIGH |-> <<"TRIGGER_WORKFLOW", 2>>,
         MEDIUM |-> <<"NOTIFY_ADMIN", 3>>, LOW |-> <<"LOG_ONLY", 4>>],
     PERFORMANCE_ISSUE |->
        [CRITICAL |-> <<"TRIGGER_WORKFLOW", 2>>, HIGH |-> <<"TRIGGER_WORKFLOW", 2>>,
         MEDIUM |-> <<"NOTIFY_ADMIN", 3>>, LOW |-> <<"LOG_ONLY", 4>>],
     VALIDATION_ERROR |->
        [CRITICAL |-> <<"NOTIFY_ADMIN", 3>>, HIGH |-> <<"NOTIFY_ADMIN", 3>>,
         MEDIUM |-> <<"LOG_ONLY", 4>>, LOW |-> <<"LOG_ONLY", 5>>],
     IGNORABLE |->
        [CRITICAL |-> <<"LOG_ONLY", 5>>, HIGH |-> <<"LOG_ONLY", 5>>,
         MEDIUM |-> <<"LOG_ONLY", 5>>, LOW |-> <<"LOG_ONLY", 5>>]]

\* routing_rules[event_type][severity] = (action, priority), the event type's
\* dict being created first when the table has none.
SetRule(rules, event_type, severity, rule) ==
    LET row == IF event_type \in DOMAIN rules THEN rules[event_type] ELSE <<>>
    IN  (event_type :> ((severity :> rule) @@ row)) @@ rules

\* The inner loop of _apply_custom_rules over one event type's entries
\* <<severity_str, <<action_str, priority>>>>: the table after the loop, which
\* a ValueError of SeverityLevel(...) or ActionType(...) ends at that entry.
RECURSIVE ApplySeverityRules(_, _, _)
ApplySeverityRules(rules, event_type, severity_rules) ==
    IF severity_rules = <<>> THEN rules
    ELSE LET severity_str == Head(severity_rules)[1]
             action_str   == Head(severity_rules)[2][1]
             priority     == Head(severity_rules)[2][2]
         IN  IF ~IsValueOf(SeverityLevel, severity_str) THEN rules
             ELSE IF ~IsValueOf(ActionType, action_str) THEN rules
             ELSE ApplySeverityRules(
                      SetRule(rules, event_type,
                              MemberOf(SeverityLevel, severity_str),
                              <<MemberOf(ActionType, action_str), priority>>),
                      event_type, Tail(severity_rules))

\* _apply_custom_rules: the outer loop; the try block spans one event type's
\* whole inner loop, and its except clause continues with the next event type.
RECURSIVE ApplyCustomRules(_, _)
ApplyCustomRules(rules, custom) ==
    IF custom = <<>> THEN rules
    ELSE LET event_type_str == Head(custom)[1]
             severity_rules == Head(custom)[2]
         IN  IF ~IsValueOf(EventType, event_type_str)
             THEN ApplyCustomRules(rules, Tail(custom))
             ELSE ApplyCustomRules(
                      ApplySeverityRules(rules, MemberOf(EventType, event_type_str),
                                         severity_rules),
                      Tail(custom))

\* _initialize_routing_rules: the defaults, then the overrides if any.
InitializeRoutingRules(custom) ==
    IF custom # <<>> THEN ApplyCustomRules(DefaultRoutingRules, custom)
    ELSE DefaultRoutingRules

(***************************************************************************)
(* EventRouter.route                                                       *)
(***************************************************************************)

GetActionForEvent(rules, event) ==
    IF event.event_type \notin DOMAIN rules THEN <<"LOG_ONLY", 5>>
    ELSE IF event.severity \notin DOMAIN rules[event.event_type] THEN <<"LOG_ONLY", 5>>
    ELSE rules[event.event_type][event.severity]

GenerateReason(event, action) ==
    LET et == EventType[event.event_type]
        sv == SeverityLevel[event.severity]
    IN  CASE action = "LOG_ONLY" ->
               "Event classified as " \o et \o " with " \o sv
                   \o " severity - logging for record keeping"
          [] action = "NOTIFY_ADMIN" ->
               "Event requires admin attention: " \o et \o " with " \o sv \o " severity"
          [] action = "TRIGGER_WORKFLOW" ->
               "Event triggers automated workflow: " \o et \o " with " \o sv \o " severity"
          [] action = "ESCALATE" ->
               "Critical event requiring immediate escalation: " \o et \o " with "
                   \o sv \o " severity"
          [] OTHER -> "Routing " \o et \o " event"

DetermineWorkflowTypeNoSecurity(event) ==
    CASE event.event_type = "SYSTEM_ERROR" -> "system_recovery"
      [] event.event_type = "PERFORMANCE_ISSUE" -> "performance_optimization"
      [] OTHER -> "generic_handler"

DetermineWorkflowType(event) ==
    CASE event.event_type = "SYSTEM_ERROR" -> "system_recovery"
      [] event.event_type = "PERFORMANCE_ISSUE" -> "performance_optimization"
      [] event.event_type = "SECURITY_ISSUE" -> "security_response"
      [] OTHER -> "generic_handler"

BuildMetadataEscalateOnly(event, action) ==
    LET base ==
            [event_type |-> EventType[event.event_type],
             severity |-> SeverityLevel[event.severity],
             message |-> event.message,
             requires_immediate_action |-> action = "ESCALATE",
             user_facing |-> event.event_type = "VALIDATION_ERROR"]
        specific ==
            CASE action = "ESCALATE" ->
                   [escalation_level |-> "immediate",
                    notify_channels |-> <<"email", "sms", "slack">>]
              [] action = "NOTIFY_ADMIN" ->
                   [notify_channels |-> <<"email", "slack">>]
              [] action = "TRIGGER_WORKFLOW" ->
                   [workflow_type |-> DetermineWorkflowType(event)]
              [] OTHER -> <<>>
    IN  [original_context |-> event.context] @@ specific @@ base

BuildMetadataNoElif(event, action) ==
    LET base ==
            [event_type |-> EventType[event.event_type],
             severity |-> SeverityLevel[event.severity],
             message |-> event.message,
             requires_immediate_action |-> action \in {"ESCALATE", "TRIGGER_WORKFLOW"},
             user_facing |-> event.event_type = "VALIDATION_ERROR"]
        specific ==
            CASE action = "ESCALATE" ->
                   [escalation_level |-> "immediate",
                    notify_channels |-> <<"email", "sms", "slack">>,
                    workflow_type |-> DetermineWorkflowType(event)]
              [] action = "NOTIFY_ADMIN" ->
                   [notify_channels |-> <<"email", "slack">>]
              [] action = "TRIGGER_WORKFLOW" ->
                   [workflow_type |-> DetermineWorkflowType(event)]
              [] OTHER -> <<>>
    IN  [original_context |-> event.context] @@ specific @@ base

BuildMetadata(event, action) ==
    LET base ==
            [event_type |-> EventType[event.event_type],
             severity |-> SeverityLevel[event.severity],
             message |-> event.message,
             requires_immediate_action |-> action \in {"ESCALATE", "TRIGGER_WORKFLOW"},
             user_facing |-> event.event_type = "VALIDATION_ERROR"]
        specific ==
            CASE action = "ESCALATE" ->
                   [escalation_level |-> "immediate",
                    notify_channels |-> <<"email", "sms", "slack">>]
              [] action = "NOTIFY_ADMIN" ->
                   [notify_channels |-> <<"email", "slack">>]
              [] action = "TRIGGER_WORKFLOW" ->
                   [workflow_type |-> DetermineWorkflowType(event)]
              [] OTHER -> <<>>
    IN  [original_context |-> event.context] @@ specific @@ base

RouteDecisionStamped(rules, event) ==
    LET rule == GetActionForEvent(rules, event)
    IN  [action   |-> rule[1],
         priority |-> rule[2],
         reason   |-> GenerateReason(event, rule[1]),
         metadata |-> [routed_at |-> clock] @@ BuildMetadata(event, rule[1])]

RouteDecision(rules, event) ==
    LET rule == GetActionForEvent(rules, event)
    IN  [action   |-> rule[1],
         priority |-> rule[2],
         reason   |-> GenerateReason(event, rule[1]),
         metadata |-> BuildMetadata(event, rule[1])]

(***************************************************************************)
(* Router inputs                                                           *)
(***************************************************************************)

\* Tokens a caller may write in custom_rules: enum values and unknown tokens.
OverrideEventTypes == {"validation_error", "security_issue", "bogus_type"}
OverrideSeverities == {"high", "bogus_severity"}
\* (action token, priority) values; the priority is whatever the caller wrote.
OverrideRules == {<<"trigger_workflow", 6>>, <<"bogus_action", 2>>}
MaxOverrideTypes == 2
MaxOverrideEntries == 2

DistinctKeys(seq) == \A i, j \in DOMAIN seq : i # j => seq[i][1] # seq[j][1]

SeverityRuleDicts ==
    {s \in UNION {[1..n -> OverrideSeverities \X OverrideRules] :
                     n \in 0..MaxOverrideEntries} : DistinctKeys(s)}

CustomRuleDicts ==
    {c \in UNION {[1..n -> OverrideEventTypes \X SeverityRuleDicts] :
                     n \in 0..MaxOverrideTypes} : DistinctKeys(c)}

RouteContexts == {[ip |-> "192.168.1.100"]}
RouteMessages == {"Service unavailable"}

AnalyzedEvents ==
    [event_type : DOMAIN EventType, severity : DOMAIN SeverityLevel,
     message : RouteMessages, context : RouteContexts]

NotRouted == [called |-> FALSE]

\* The caller keeps what route returned; when it routes the same event again
\* it still holds the decision of the call before (previous).
Route(event) ==
    /\ routed' = [called |-> TRUE, event |-> event,
                  decision |-> RouteDecision(routing_rules, event),
                  repeated |-> routed.called /\ routed.event = event,
                  previous |-> IF routed.called /\ routed.event = event
                               THEN routed.decision ELSE <<>>]
    /\ UNCHANGED <<custom_rules, routing_rules, calls>>
    /\ UNCHANGED <<analysisVars, executorVars, otherVars>>


(***************************************************************************)
(* ai_agent_service.py: AnalysisAgent                                      *)
(***************************************************************************)

EventCategory ==
    [VALIDATION_ERROR |-> "validation_error",
     SYSTEM_ERROR     |-> "system_error",
     SECURITY_ISSUE   |-> "security_issue",
     IGNORABLE        |-> "ignorable"]

AnalysisSeverityLevel == [LOW |-> "low", MEDIUM |-> "medium", HIGH |-> "high"]

UpperCase == <<"A", "B", "C", "D", "E", "F", "G", "H", "I", "J", "K", "L", "M",
              "N", "O", "P", "Q", "R", "S", "T", "U", "V", "W", "X", "Y", "Z">>

LowerCase == <<"a", "b", "c", "d", "e", "f", "g", "h", "i", "j", "k", "l", "m",
              "n", "o", "p", "q", "r", "s", "t", "u", "v", "w", "x", "y", "z">>

\* str.lower() on the letters the messages use.
LowerChar(c) ==
    IF \E i \in DOMAIN UpperCase : UpperCase[i] = c
    THEN LowerCase[CHOOSE i \in DOMAIN UpperCase : UpperCase[i] = c]
    ELSE c

Lower(s) == [i \in DOMAIN s |-> LowerChar(s[i])]

\* keyword in s: substring containment.
Contains(keyword, s) ==
    \E i \in 0..(Len(s) - Len(keyword)) :
        \A j \in 1..Len(keyword) : s[i + j] = keyword[j]

SecurityKeywords ==
    {<<"u", "n", "a", "u", "t", "h", "o", "r", "i", "z", "e", "d">>,
     <<"f", "o", "r", "b", "i", "d", "d", "e", "n">>,
     <<"a", "u", "t", "h", "e", "n", "t", "i", "c", "a", "t", "i", "o", "n">>,
     <<"i", "n", "j", "e", "c", "t", "i", "o", "n">>}

ValidationKeywords ==
    {<<"i", "n", "v", "a", "l", "i", "d">>,
     <<"v", "a", "l", "i", "d", "a", "t", "i", "o", "n">>,
     <<"r", "e", "q", "u", "i", "r", "e", "d", " ", "f", "i", "e", "l", "d">>,
     <<"f", "o", "r", "m", "a", "t">>}

SystemKeywords ==
    {<<"d", "a", "t", "a", "b", "a", "s", "e">>,
     <<"c", "o", "n", "n", "e", "c", "t", "i", "o", "n">>,
     <<"t", "i", "m", "e", "o", "u", "t">>,
     <<"i", "n", "t", "e", "r", "n", "a", "l", " ", "s", "e", "r", "v", "e", "r">>}

AnyKeyword(keywords, s) == \E keyword \in keywords : Contains(keyword, s)

\* AnalysisResult; confidence in hundredths (85 is 0.85).
AnalysisResult(category, severity, confidence, reasoning) ==
    [called |-> TRUE, category |-> category, severity |-> severity,
     confidence |-> confidence, reasoning |-> reasoning]

RuleBasedClassificationValidationFirst(error_type, message, context) ==
    LET message_lower == Lower(message)
    IN  IF AnyKeyword(ValidationKeywords, message_lower)
        THEN AnalysisResult("VALIDATION_ERROR", "LOW", 90,
                            "Detected validation-related keywords")
        ELSE IF AnyKeyword(SecurityKeywords, message_lower)
        THEN AnalysisResult("SECURITY_ISSUE", "HIGH", 85,
                            "Detected security-related keywords in error message")
        ELSE IF AnyKeyword(SystemKeywords, message_lower)
        THEN AnalysisResult("SYSTEM_ERROR", "MEDIUM", 80,
                            "Detected system-level error indicators")
        ELSE AnalysisResult("IGNORABLE", "LOW", 70, "No critical patterns detected")

RuleBasedClassificationByType(error_type, message, context) ==
    IF error_type = "AuthenticationError"
    THEN AnalysisResult("SECURITY_ISSUE", "HIGH", 85,
                        "Detected security-related keywords in error message")
    ELSE IF AnyKeyword(ValidationKeywords, Lower(message))
    THEN AnalysisResult("VALIDATION_ERROR", "LOW", 90,
                        "Detected validation-related keywords")
    ELSE AnalysisResult("IGNORABLE", "LOW", 70, "No critical patterns detected")

RuleBasedClassification(error_type, message, context) ==
    LET message_lower == Lower(message)
    IN  IF AnyKeyword(SecurityKeywords, message_lower)
        THEN AnalysisResult("SECURITY_ISSUE", "HIGH", 85,
                            "Detected security-related keywords in error message")
        ELSE IF AnyKeyword(ValidationKeywords, message_lower)
        THEN AnalysisResult("VALIDATION_ERROR", "LOW", 90,
                            "Detected validation-related keywords")
        ELSE IF AnyKeyword(SystemKeywords, message_lower)
        THEN AnalysisResult("SYSTEM_ERROR", "MEDIUM", 80,
                            "Detected system-level error indicators")
        ELSE AnalysisResult("IGNORABLE", "LOW", 70, "No critical patterns detected")

\* _call_watsonx_classifier: the stub falls back to the rules; stack_trace is dropped.
CallWatsonxClassifier(error_type, message, stack_trace, context) ==
    RuleBasedClassification(error_type, message, context)

\* dict.get(key, default)
Get(dict, key, default) == IF key \in DOMAIN dict THEN dict[key] ELSE default

Analyze(p) ==
    CallWatsonxClassifier(Get(p, "error_type", <<>>), Get(p, "message", <<>>),
                          Get(p, "stack_trace", <<>>), Get(p, "context", <<>>))

(***************************************************************************)
(* Analysis inputs                                                         *)
(***************************************************************************)

MessageWords ==
    {<<"U", "n", "a", "u", "t", "h", "o", "r", "i", "z", "e", "d">>,
     <<"i", "n", "v", "a", "l", "i", "d">>,
     <<"T", "I", "M", "E", "O", "U", "T">>,
     <<"r", "e", "q", "u", "i", "r", "e", "d">>,
     <<"f", "i", "e", "l", "d">>,
     <<"a", "c", "c", "e", "s", "s">>,
     <<"i", "n", "f", "o", "r", "m", "a", "t", "i", "o", "n">>,
     <<"D", "a", "t", "a", "b", "a", "s", "e">>}

MaxWords == 2

Space == <<" ">>

\* " ".join(words)
RECURSIVE Join(_)
Join(words) ==
    IF words = <<>> THEN <<>>
    ELSE IF Len(words) = 1 THEN Head(words)
    ELSE Head(words) \o Space \o Join(Tail(words))

Messages == {Join(ws) : ws \in UNION {[1..n -> MessageWords] : n \in 0..MaxWords}}

ErrorTypes == {"ValidationError", "AuthenticationError"}

Payloads ==
    [error_type : ErrorTypes, message : Messages]
        \cup [error_type : ErrorTypes]

NotAnalyzed == [called |-> FALSE]

AnalyzeCall(p) ==
    /\ ~analysis.called
    /\ payload' = p
    /\ analysis' = Analyze(p)
    /\ UNCHANGED <<routerVars, executorVars, otherVars>>

\* AIAgentService.process hands the result on; the agent keeps no state.
AnalyzeReturn ==
    /\ analysis.called
    /\ payload' = <<>>
    /\ analysis' = NotAnalyzed
    /\ UNCHANGED <<routerVars, executorVars, otherVars>>

AnalysisNext ==
    \/ \E p \in Payloads : AnalyzeCall(p)
    \/ AnalyzeReturn

(***************************************************************************)
(* Legacy_folder/agent_api.py: ActionExecutor                              *)
(*                                                                         *)
(* A handler run is [effects, raised, ret | error]: the trace of what the  *)
(* handler did (handler entries, logger calls, send_mail calls, in order)  *)
(* and either the dict it returned or the exception it raised.             *)
(***************************************************************************)

Returned(eff, ret) == [effects |-> eff, raised |-> FALSE, ret |-> ret]

Raised(eff, error) == [effects |-> eff, raised |-> TRUE, error |-> error]

Entered(eff, handler) == Append(eff, [kind |-> "call", handler |-> handler])

\* logging.Logger.makeRecord refuses an extra dict with one of these keys
\* (KeyError), before any handler sees the record.  Every level the handlers
\* log at is taken to be enabled.
LogRecordReserved ==
    {"message", "asctime", "name", "msg", "args", "levelname", "levelno",
     "pathname", "filename", "module", "exc_info", "exc_text", "stack_info",
     "lineno", "funcName", "created", "msecs", "relativeCreated", "thread",
     "threadName", "processName", "process", "taskName"}

OverwriteError == "\"Attempt to overwrite 'message' in LogRecord\""

LogRecord(levelname, what) == [kind |-> "log", level |-> levelname, what |-> what]

\* logging level numbers and logging.getLevelName
LoggingLevel == [INFO |-> 20, WARNING |-> 30, ERROR |-> 40, CRITICAL |-> 50]

GetLevelName(levelno) == CHOOSE n \in DOMAIN LoggingLevel : LoggingLevel[n] = levelno

GetLogLevel(severity) ==
    CASE severity = "low" -> LoggingLevel["INFO"]
      [] severity = "medium" -> LoggingLevel["WARNING"]
      [] severity = "high" -> LoggingLevel["ERROR"]
      [] severity = "critical" -> LoggingLevel["CRITICAL"]
      [] OTHER -> LoggingLevel["INFO"]

\* datetime.isoformat()
IsoFormat(t) == "T+" \o ToString(t)

\* str.upper() on the severity tokens
Upper(severity) ==
    CASE severity = "low" -> "LOW"
      [] severity = "medium" -> "MEDIUM"
      [] severity = "high" -> "HIGH"
      [] severity = "critical" -> "CRITICAL"
      [] OTHER -> severity

\* A JSONField takes any JSON value.  An object is a record; a value that is
\* not an object (here the str "agent") is the record [json |-> its Python
\* type name], a key no object of the decisions has.
JsonStr == [json |-> "str"]

IsDict(value) == "json" \notin DOMAIN value

\* str(AttributeError) of value.attr on a value without that attribute
AttributeError(value, attr) ==
    "'" \o value.json \o "' object has no attribute '" \o attr \o "'"

\* _build_notification_message -> _format_dict(context), _format_dict(metadata):
\* d.items() on a truthy value; [ok] or [ok, error]
BuildNotificationMessage(data) ==
    LET context == Get(data, "context", <<>>)
        metadata == Get(data, "metadata", <<>>)
    IN  IF ~IsDict(context) THEN [ok |-> FALSE, error |-> AttributeError(context, "items")]
        ELSE IF ~IsDict(metadata)
        THEN [ok |-> FALSE, error |-> AttributeError(metadata, "items")]
        ELSE [ok |-> TRUE]

ErrorResponse(self, error_message) ==
    [success |-> FALSE, action |-> "error", message |-> error_message,
     execution_time |-> IsoFormat(self.execution_time)]

\* _get_admin_emails: [ok, emails]; unpacking an ADMINS element that is not a
\* (name, email) pair is a ValueError.
GetAdminEmails(conf) ==
    IF "ADMIN_NOTIFICATION_EMAILS" \in DOMAIN conf
    THEN [ok |-> TRUE, emails |-> conf.ADMIN_NOTIFICATION_EMAILS]
    ELSE IF "ADMINS" \in DOMAIN conf
    THEN IF \A i \in DOMAIN conf.ADMINS : DOMAIN conf.ADMINS[i] = {"name", "email"}
         THEN [ok |-> TRUE, emails |-> [i \in DOMAIN conf.ADMINS |-> conf.ADMINS[i].email]]
         ELSE [ok |-> FALSE, error |-> "too many values to unpack (expected 2)"]
    ELSE [ok |-> TRUE, emails |-> <<>>]

HandleLogOnly(self, data, eff) ==
    LET log_level == GetLogLevel(data.severity)
        logged == Append(Entered(eff, "_handle_log_only"),
                         LogRecord(GetLevelName(log_level), "event"))
    IN  Returned(logged,
            [success |-> TRUE, action |-> "log_only",
             message |-> "Event logged successfully",
             execution_time |-> IsoFormat(self.execution_time),
             details |-> [log_level |-> GetLevelName(log_level),
                          event_type |-> data.event_type]])

HandleNotifyAdmin(self, conf, data, eff, mail) ==
    LET logged == HandleLogOnly(self, data, Entered(eff, "_handle_notify_admin")).effects
        subject == "[AI Agent Alert] " \o data.event_type \o " - " \o Upper(data.severity)
        message == BuildNotificationMessage(data)
        admins == GetAdminEmails(conf)
    IN  IF ~message.ok THEN Raised(logged, message.error)
        ELSE IF ~admins.ok THEN Raised(logged, admins.error)
        ELSE IF admins.emails = <<>>
        THEN Returned(Append(logged, LogRecord("WARNING", "no_admin_emails")),
                 [success |-> FALSE, action |-> "notify_admin",
                  message |-> "No admin emails configured",
                  execution_time |-> IsoFormat(self.execution_time)])
        ELSE LET attempt == [kind |-> "send_mail", subject |-> subject,
                             recipient_list |-> admins.emails, result |-> mail]
             IN  IF mail = "sent"
                 THEN Returned(Append(logged, attempt),
                          [success |-> TRUE, action |-> "notify_admin",
                           message |-> "Admin notification sent to "
                               \o ToString(Len(admins.emails)) \o " recipient(s)",
                           execution_time |-> IsoFormat(self.execution_time),
                           details |-> [recipients |-> Len(admins.emails),
                                        subject |-> subject]])
                 ELSE Returned(Append(Append(logged, attempt),
                                      LogRecord("ERROR", "send_failed")),
                          [success |-> FALSE, action |-> "notify_admin",
                           message |-> "Failed to send notification: " \o mail,
                           execution_time |-> IsoFormat(self.execution_time)])

HandleTriggerWorkflowNow(self, data, eff) ==
    Returned(Append(Entered(eff, "_handle_trigger_workflow"),
                    LogRecord("INFO", "trigger_workflow")),
        [success |-> TRUE, action |-> "trigger_workflow",
         message |-> "Workflow triggered",
         execution_time |-> IsoFormat(clock),
         details |-> [event_type |-> data.event_type]])

HandleTriggerWorkflow(self, data, eff) ==
    LET logged == HandleLogOnly(self, data, Entered(eff, "_handle_trigger_workflow")).effects
        metadata == Get(data, "metadata", <<>>)
        workflow_type == Get(metadata, "workflow_type", "generic_handler")
    IN  IF ~IsDict(metadata) THEN Raised(logged, AttributeError(metadata, "get"))
        ELSE Returned(Append(logged, LogRecord("INFO", "trigger_workflow")),
            [success |-> TRUE, action |-> "trigger_workflow",
             message |-> "Workflow triggered: " \o workflow_type,
             execution_time |-> IsoFormat(self.execution_time),
             details |-> [workflow_type |-> workflow_type,
                          event_type |-> data.event_type]])

\* logger.critical(..., extra=data) comes first: data is the whole decision.
HandleEscalate(self, conf, data, eff, mail) ==
    LET entered == Entered(eff, "_handle_escalate")
    IN  IF DOMAIN data \cap LogRecordReserved # {}
        THEN Raised(entered, OverwriteError)
        ELSE LET notification == HandleNotifyAdmin(self, conf, data,
                                     Append(entered, LogRecord("CRITICAL", "escalation")),
                                     mail)
             IN  IF notification.raised THEN notification
                 ELSE LET workflow == HandleTriggerWorkflow(self, data, notification.effects)
                      IN  IF workflow.raised THEN workflow
                          ELSE Returned(workflow.effects,
                              [success |-> TRUE, action |-> "escalate",
                               message |-> "Critical escalation initiated",
                               execution_time |-> IsoFormat(self.execution_time),
                               details |->
                                   [notification_sent |-> notification.ret.success,
                                    workflow_triggered |-> workflow.ret.success,
                                    escalation_level |-> "critical",
                                    event_type |-> data.event_type]])

Handlers == {"log_only", "notify_admin", "trigger_workflow", "escalate"}

Handle(self, conf, data, mail) ==
    CASE data.action = "log_only" -> HandleLogOnly(self, data, <<>>)
      [] data.action = "notify_admin" -> HandleNotifyAdmin(self, conf, data, <<>>, mail)
      [] data.action = "trigger_workflow" -> HandleTriggerWorkflow(self, data, <<>>)
      [] data.action = "escalate" -> HandleEscalate(self, conf, data, <<>>, mail)

ExecutePropagating(self, conf, data, mail) ==
    IF data.action \notin Handlers
    THEN Returned(<<>>, ErrorResponse(self, "Unknown action: " \o data.action))
    ELSE Handle(self, conf, data, mail)

ExecuteDefaultHandler(self, conf, data, mail) ==
    IF data.action \notin Handlers
    THEN HandleLogOnly(self, data, <<>>)
    ELSE LET run == Handle(self, conf, data, mail)
         IN  IF run.raised
             THEN Returned(Append(run.effects, LogRecord("ERROR", "execute_error")),
                           ErrorResponse(self, "Failed to execute action: " \o run.error))
             ELSE run

\* execute's try/except around the handler call
ExecuteGuarded(self, run) ==
    IF run.raised
    THEN Returned(Append(run.effects, LogRecord("ERROR", "execute_error")),
                  ErrorResponse(self, "Failed to execute action: " \o run.error))
    ELSE run

\* ActionExecutor.execute
Execute(self, conf, data, mail) ==
    IF data.action \notin Handlers
    THEN Returned(<<>>, ErrorResponse(self, "Unknown action: " \o data.action))
    ELSE ExecuteGuarded(self, Handle(self, conf, data, mail))

\* AgentDecisionSerializer / ExecuteActionSerializer: the fields in error.
SerializerErrors(data) ==
    {f \in {"action", "priority", "event_type", "severity", "message"} :
        f \notin DOMAIN data}
    \cup (IF "action" \in DOMAIN data /\ data.action \notin Handlers
          THEN {"action"} ELSE {})
    \cup (IF "priority" \in DOMAIN data /\ data.priority \notin 1..5
          THEN {"priority"} ELSE {})
    \cup (IF "message" \in DOMAIN data /\ data.message = ""
          THEN {"message"} ELSE {})
    \cup (IF "severity" \in DOMAIN data
             /\ data.severity \notin {"low", "medium", "high", "critical"}
          THEN {"severity"} ELSE {})

\* execute_agent_decision after executor.execute: the status of the response
ExecutionResponse(run) ==
    IF run.raised
    THEN [status |-> 500, effects |-> run.effects, raised |-> TRUE,
          result |-> [error |-> run.error]]
    ELSE [status |-> IF run.ret.success THEN 200 ELSE 500,
          effects |-> run.effects, raised |-> FALSE, result |-> run.ret]

ExecuteAgentDecisionValidateLate(conf, now, data, mail) ==
    IF SerializerErrors(data) # {}
    THEN [status |-> 400,
          effects |-> IF data.action \in Handlers
                      THEN HandleLogOnly([execution_time |-> now], data, <<>>).effects
                      ELSE <<>>,
          raised |-> FALSE,
          result |-> [success |-> FALSE, message |-> "Invalid request data",
                      errors |-> SerializerErrors(data)]]
    ELSE ExecutionResponse(Execute([execution_time |-> now], conf, data, mail))

\* execute_agent_decision: [status, effects, raised, result]
ExecuteAgentDecision(conf, now, data, mail) ==
    IF SerializerErrors(data) # {}
    THEN [status |-> 400, effects |-> <<>>, raised |-> FALSE,
          result |-> [success |-> FALSE, message |-> "Invalid request data",
                      errors |-> SerializerErrors(data)]]
    ELSE ExecutionResponse(Execute([execution_time |-> now], conf, data, mail))

(***************************************************************************)
(* agents/views.py: execute_action (the definition at lines 206-313)       *)
(***************************************************************************)

ViewsExecuteAction(now, data) ==
    IF SerializerErrors(data) # {}
    THEN [status |-> 400, effects |-> <<>>, raised |-> FALSE,
          result |-> [error |-> "Invalid request data",
                      details |-> SerializerErrors(data)]]
    ELSE LET action == data.action
             execution_time == IsoFormat(now)
         IN  CASE action = "log_only" ->
                    [status |-> 200, raised |-> FALSE,
                     effects |-> <<LogRecord("INFO", "event")>>,
                     result |-> [success |-> TRUE, action |-> action,
                                 message |-> "Event logged successfully",
                                 execution_time |-> execution_time,
                                 details |-> [log_level |-> "INFO"]]]
               [] action = "notify_admin" ->
                    [status |-> 200, raised |-> FALSE,
                     effects |-> <<LogRecord("WARNING", "admin_notification")>>,
                     result |-> [success |-> TRUE, action |-> action,
                                 message |-> "Admin notification sent",
                                 execution_time |-> execution_time,
                                 details |-> [notifications_sent |-> 1]]]
               [] action = "trigger_workflow" ->
                    LET metadata == Get(data, "metadata", <<>>)
                        workflow_type == Get(metadata, "workflow_type", "generic")
                    IN  IF ~IsDict(metadata)
                        THEN [status |-> 500, raised |-> FALSE, effects |-> <<>>,
                              result |-> [error |-> "Execution failed",
                                          details |-> AttributeError(metadata, "get")]]
                        ELSE
                        [status |-> 200, raised |-> FALSE,
                         effects |-> <<LogRecord("INFO", "trigger_workflow")>>,
                         result |-> [success |-> TRUE, action |-> action,
                                     message |-> "Workflow triggered: " \o workflow_type,
                                     execution_time |-> execution_time,
                                     details |-> [workflow_type |-> workflow_type]]]
               [] action = "escalate" ->
                    [status |-> 200, raised |-> FALSE,
                     effects |-> <<LogRecord("CRITICAL", "escalation")>>,
                     result |-> [success |-> TRUE, action |-> action,
                                 message |-> "Critical escalation initiated",
                                 execution_time |-> execution_time,
                                 details |-> [escalation_level |-> "critical",
                                              notifications_sent |-> 2,
                                              workflow_triggered |-> TRUE]]]
               [] OTHER ->
                    [status |-> 200, raised |-> FALSE, effects |-> <<>>,
                     result |-> [success |-> FALSE, action |-> action,
                                 message |-> "Unknown action: " \o action,
                                 execution_time |-> execution_time]]

(***************************************************************************)
(* Executor inputs                                                         *)
(***************************************************************************)

MaxClock == 1

\* settings: Django's defaults (ADMINS = []), then what a project may set.
DefaultSettings == [ADMINS |-> <<>>]

SettingsChoices ==
    {DefaultSettings,
     [ADMIN_NOTIFICATION_EMAILS |-> <<>>,
      ADMINS |-> <<[name |-> "Admin", email |-> "admin@example.com"]>>],
     [ADMIN_NOTIFICATION_EMAILS |-> <<"admin@example.com", "ops@example.com">>,
      ADMINS |-> <<>>],
     [ADMINS |-> <<[name |-> "Admin", email |-> "admin@example.com"]>>],
     [ADMINS |-> <<[address |-> "admin@example.com"]>>]}

\* send_mail: delivered, or the error text of the exception it raised.
MailResults == {"sent", "Connection refused"}

\* Decision data the serializers reject for a field other than the action: a
\* priority outside 1..5, a severity that is not a choice, no message.
MalformedDecisions ==
    {[action |-> "log_only", priority |-> 6, event_type |-> "system_error",
      severity |-> "low", message |-> "Database connection timeout"],
     [action |-> "notify_admin", priority |-> 0, event_type |-> "system_error",
      severity |-> "high", message |-> "Database connection timeout"],
     [action |-> "trigger_workflow", priority |-> 2, event_type |-> "system_error",
      severity |-> "urgent", message |-> "Database connection timeout"],
     [action |-> "log_only", priority |-> 2, event_type |-> "system_error",
      severity |-> "low"]}

Decisions ==
    [action : Handlers \cup {"restart_service"},
     priority : {2},
     event_type : {"system_error"},
     severity : {"low", "medium", "high", "critical"},
     message : {"Database connection timeout"},
     context : {[database |-> "postgres"]},
     metadata : {[source |-> "agent"],
                 [source |-> "agent", workflow_type |-> "system_recovery"],
                 JsonStr}]
        \cup MalformedDecisions

\* Decision data with every key the handlers subscript
CompleteDecisions ==
    {data \in Decisions :
        {"action", "priority", "event_type", "severity", "message"} \subseteq DOMAIN data}

NotExecuted == [called |-> FALSE]

Tick ==
    /\ clock < MaxClock
    /\ clock' = clock + 1
    /\ UNCHANGED <<settings, executor, request, effects, outcome>>
    /\ UNCHANGED <<routerVars, analysisVars, otherVars>>

\* ActionExecutor(): execution_time = datetime.utcnow()
NewExecutor ==
    /\ executor' = [execution_time |-> clock]
    /\ UNCHANGED <<settings, clock, request, effects, outcome>>
    /\ UNCHANGED <<routerVars, analysisVars, otherVars>>

ExecuteCall(data, mail) ==
    LET run == Execute(executor, settings, data, mail)
    IN  /\ ~outcome.called
        /\ request' = data
        /\ effects' = run.effects
        /\ outcome' = [called |-> TRUE, via |-> "ActionExecutor.execute",
                       raised |-> run.raised,
                       result |-> IF run.raised THEN [error |-> run.error] ELSE run.ret]
        /\ UNCHANGED <<settings, clock, executor>>
        /\ UNCHANGED <<routerVars, analysisVars, otherVars>>

ExecuteAgentDecisionCall(data, mail) ==
    LET response == ExecuteAgentDecision(settings, clock, data, mail)
    IN  /\ ~outcome.called
        /\ request' = data
        /\ effects' = response.effects
        /\ outcome' = [called |-> TRUE, via |-> "execute_agent_decision",
                       raised |-> response.raised, status |-> response.status,
                       result |-> response.result]
        /\ UNCHANGED <<settings, clock, executor>>
        /\ UNCHANGED <<routerVars, analysisVars, otherVars>>

ViewsExecuteActionCall(data) ==
    LET response == ViewsExecuteAction(clock, data)
    IN  /\ ~outcome.called
        /\ request' = data
        /\ effects' = response.effects
        /\ outcome' = [called |-> TRUE, via |-> "views.execute_action",
                       raised |-> response.raised, status |-> response.status,
                       result |-> response.result]
        /\ UNCHANGED <<settings, clock, executor>>
        /\ UNCHANGED <<routerVars, analysisVars, otherVars>>

\* The caller has the result; the next call starts from a clean trace.
Return ==
    /\ outcome.called
    /\ request' = <<>>
    /\ effects' = <<>>
    /\ outcome' = NotExecuted
    /\ UNCHANGED <<settings, clock, executor>>
    /\ UNCHANGED <<routerVars, analysisVars, otherVars>>

(***************************************************************************)
(* agents/services/validation_module.py: PayloadValidator                  *)
(*                                                                         *)
(* A Python value is [type |-> its type name, value |-> its text as        *)
(* characters]; a dict in iteration order is a sequence of <<key, value>>  *)
(* pairs with distinct keys; Optional is NoneValue or Some(v).             *)
(***************************************************************************)

FieldType ==
    [STRING |-> "string", INTEGER |-> "integer", FLOAT |-> "float",
     BOOLEAN |-> "boolean", LIST |-> "list", DICT |-> "dict",
     EMAIL |-> "email", URL |-> "url", ANY |-> "any"]

NoneValue == [none |-> TRUE]

Some(v) == [none |-> FALSE, value |-> v]

\* s.split(sep)[-1]: what follows the last sep, all of s when there is none
AfterLast(sep, s) ==
    IF \E i \in DOMAIN s : s[i] = sep
    THEN LET last == CHOOSE i \in DOMAIN s :
                         s[i] = sep /\ \A j \in DOMAIN s : s[j] = sep => j <= i
         IN  SubSeq(s, last + 1, Len(s))
    ELSE s

IsValidEmail(email) ==
    Contains(<<"@">>, email) /\ Contains(<<".">>, AfterLast("@", email))

StartsWith(s, prefix) ==
    Len(s) >= Len(prefix) /\ SubSeq(s, 1, Len(prefix)) = prefix

IsValidUrl(url) ==
    \/ StartsWith(url, <<"h", "t", "t", "p", ":", "/", "/">>)
    \/ StartsWith(url, <<"h", "t", "t", "p", "s", ":", "/", "/">>)

CheckType(value, expected_type) ==
    CASE expected_type = "ANY" -> TRUE
      [] expected_type = "STRING" -> value.type = "str"
      [] expected_type = "INTEGER" -> value.type = "int"
      [] expected_type = "FLOAT" -> value.type \in {"int", "float"}
      [] expected_type = "BOOLEAN" -> value.type = "bool"
      [] expected_type = "LIST" -> value.type = "list"
      [] expected_type = "DICT" -> value.type = "dict"
      [] expected_type = "EMAIL" -> value.type = "str" /\ IsValidEmail(value.value)
      [] expected_type = "URL" -> value.type = "str" /\ IsValidUrl(value.value)
      [] OTHER -> FALSE

\* The custom validators of the schemas: the builtin bool (truthiness).
CallValidator(validator, value) ==
    CASE value.type = "int" -> value.value # <<"0">>
      [] value.type = "bool" -> value.value = <<"T", "r", "u", "e">>
      [] OTHER -> value.value # <<>>

\* PayloadValidator.__init__
NewPayloadValidator(field_schemas) ==
    [schema |-> field_schemas,
     required_fields |->
         {field_schemas[i].name : i \in {k \in DOMAIN field_schemas : field_schemas[k].required}},
     all_fields |->
         [name \in {field_schemas[i].name : i \in DOMAIN field_schemas} |->
             field_schemas[CHOOSE i \in DOMAIN field_schemas :
                              /\ field_schemas[i].name = name
                              /\ \A j \in DOMAIN field_schemas :
                                    field_schemas[j].name = name => j <= i]]]

\* The field names of the model in Python's string order.
FieldNameOrder == <<"age", "email", "extra">>

Before(a, b) ==
    \E i, j \in DOMAIN FieldNameOrder :
        FieldNameOrder[i] = a /\ FieldNameOrder[j] = b /\ i < j

\* sorted(names)
RECURSIVE Sorted(_)
Sorted(names) ==
    IF names = {} THEN <<>>
    ELSE LET least == CHOOSE a \in names : \A b \in names \ {a} : Before(a, b)
         IN  <<least>> \o Sorted(names \ {least})

Keys(dict) == {dict[i][1] : i \in DOMAIN dict}

\* The missing names in schema order.
CheckMissingFieldsUnsorted(self, dict) ==
    LET missing == self.required_fields \ Keys(dict)
    IN  SelectSeq([i \in DOMAIN self.schema |-> self.schema[i].name],
                  LAMBDA name : name \in missing)

CheckMissingFields(self, dict) == Sorted(self.required_fields \ Keys(dict))

\* One pass of the loop over payload.items(), from item i on:
\* [invalid_fields, validator_calls]
RECURSIVE CheckFieldsFrom(_, _, _, _)
CheckFieldsFrom(self, dict, i, acc) ==
    IF i > Len(dict) THEN acc
    ELSE LET field_name == dict[i][1]
             field_value == dict[i][2]
         IN  IF field_name \notin DOMAIN self.all_fields
             THEN CheckFieldsFrom(self, dict, i + 1, acc)
             ELSE LET field_schema == self.all_fields[field_name]
                  IN  IF ~CheckType(field_value, field_schema.field_type)
                      THEN CheckFieldsFrom(self, dict, i + 1,
                               [acc EXCEPT !.invalid_fields =
                                   Append(@, <<field_name, "Invalid type: expected "
                                                 \o FieldType[field_schema.field_type]>>)])
                      ELSE IF field_schema.validator = "None"
                      THEN CheckFieldsFrom(self, dict, i + 1, acc)
                      ELSE CheckFieldsFrom(self, dict, i + 1,
                               [invalid_fields |->
                                    IF CallValidator(field_schema.validator, field_value)
                                    THEN acc.invalid_fields
                                    ELSE Append(acc.invalid_fields,
                                                <<field_name, "Failed custom validation">>),
                                validator_calls |-> Append(acc.validator_calls, field_name)])

\* The loop with the custom validator called before the type check.
RECURSIVE CheckFieldsValidatorFirstFrom(_, _, _, _)
CheckFieldsValidatorFirstFrom(self, dict, i, acc) ==
    IF i > Len(dict) THEN acc
    ELSE LET field_name == dict[i][1]
             field_value == dict[i][2]
         IN  IF field_name \notin DOMAIN self.all_fields
             THEN CheckFieldsValidatorFirstFrom(self, dict, i + 1, acc)
             ELSE LET field_schema == self.all_fields[field_name]
                      called == IF field_schema.validator = "None"
                                THEN acc.validator_calls
                                ELSE Append(acc.validator_calls, field_name)
                      error ==
                          IF field_schema.validator # "None"
                             /\ ~CallValidator(field_schema.validator, field_value)
                          THEN <<<<field_name, "Failed custom validation">>>>
                          ELSE IF ~CheckType(field_value, field_schema.field_type)
                          THEN <<<<field_name, "Invalid type: expected "
                                      \o FieldType[field_schema.field_type]>>>>
                          ELSE <<>>
                  IN  CheckFieldsValidatorFirstFrom(self, dict, i + 1,
                          [invalid_fields |-> acc.invalid_fields \o error,
                           validator_calls |-> called])

CheckFieldValidityValidatorFirst(self, dict) ==
    CheckFieldsValidatorFirstFrom(self, dict, 1,
        [invalid_fields |-> <<>>, validator_calls |-> <<>>])

CheckFieldValidity(self, dict) ==
    CheckFieldsFrom(self, dict, 1, [invalid_fields |-> <<>>, validator_calls |-> <<>>])

\* sep.join(strings)
RECURSIVE JoinStr(_, _)
JoinStr(sep, strings) ==
    IF strings = <<>> THEN ""
    ELSE IF Len(strings) = 1 THEN strings[1]
    ELSE strings[1] \o sep \o JoinStr(sep, Tail(strings))

GenerateMessageFirstClause(is_valid, missing_fields, invalid_fields) ==
    IF is_valid THEN "Validation successful"
    ELSE IF missing_fields # <<>>
    THEN "Missing required fields: " \o JoinStr(", ", missing_fields)
    ELSE "Invalid fields: " \o
             JoinStr(", ", [i \in DOMAIN invalid_fields |->
                              invalid_fields[i][1] \o " (" \o invalid_fields[i][2] \o ")"])

GenerateMessage(is_valid, missing_fields, invalid_fields) ==
    IF is_valid THEN "Validation successful"
    ELSE LET invalid_list ==
                 [i \in DOMAIN invalid_fields |->
                     invalid_fields[i][1] \o " (" \o invalid_fields[i][2] \o ")"]
             missing_msg ==
                 IF missing_fields # <<>>
                 THEN <<"Missing required fields: " \o JoinStr(", ", missing_fields)>>
                 ELSE <<>>
             invalid_msg ==
                 IF invalid_fields # <<>>
                 THEN <<"Invalid fields: " \o JoinStr(", ", invalid_list)>>
                 ELSE <<>>
         IN  JoinStr("; ", missing_msg \o invalid_msg)

\* PayloadValidator.validate: the ValidationResult and the validators called
Validate(self, dict) ==
    LET missing_fields == CheckMissingFields(self, dict)
        checked == CheckFieldValidity(self, dict)
        invalid_fields == checked.invalid_fields
        is_valid == Len(missing_fields) = 0 /\ Len(invalid_fields) = 0
    IN  [result |->
             [is_valid |-> is_valid,
              missing_fields |-> missing_fields,
              message |-> GenerateMessage(is_valid, missing_fields, invalid_fields),
              invalid_fields |->
                  IF invalid_fields # <<>> THEN Some(invalid_fields) ELSE NoneValue],
         validator_calls |-> checked.validator_calls]

(***************************************************************************)
(* Validator inputs                                                        *)
(***************************************************************************)

MaxSchemaLen == 2
MaxPayloadLen == 2

\* (field_type, validator) of a FieldSchema
FieldChecks == {<<"STRING", "None">>, <<"STRING", "bool">>, <<"INTEGER", "bool">>}

FieldSchemas ==
    {[name |-> n, required |-> r, field_type |-> c[1], validator |-> c[2]] :
        n \in {"email", "age"}, r \in BOOLEAN, c \in FieldChecks}

Schemas ==
    {fs \in UNION {[1..n -> FieldSchemas] : n \in 0..MaxSchemaLen} :
        \A i, j \in DOMAIN fs : i # j => fs[i].name # fs[j].name}

PayloadValues ==
    {[type |-> "str", value |-> <<"a", "@", "b", ".", "c">>],
     [type |-> "str", value |-> <<>>],
     [type |-> "int", value |-> <<"5">>]}

ValidatorPayloads ==
    {d \in UNION {[1..n -> {"email", "age", "extra"} \X PayloadValues] :
                     n \in 0..MaxPayloadLen} : DistinctKeys(d)}

NotValidated == [called |-> FALSE]

ValidateCall(dict) ==
    LET run == Validate(NewPayloadValidator(schema), dict)
    IN  /\ ~validated.called
        /\ validated' = [called |-> TRUE, payload |-> dict, result |-> run.result,
                          validator_calls |-> run.validator_calls]
        /\ UNCHANGED <<schema, middlewareVars, pipeline, urlconf>>
        /\ UNCHANGED <<routerVars, analysisVars, executorVars>>

\* The caller has the ValidationResult; the validator keeps no state.
ValidateReturn ==
    /\ validated.called
    /\ validated' = NotValidated
    /\ UNCHANGED <<schema, middlewareVars, pipeline, urlconf>>
    /\ UNCHANGED <<routerVars, analysisVars, executorVars>>

ValidatorNext ==
    \/ \E dict \in ValidatorPayloads : ValidateCall(dict)
    \/ ValidateReturn

(***************************************************************************)
(* agents/services/exception_middleware.py: AIAgentExceptionMiddleware     *)
(***************************************************************************)

\* not value, for an Optional str
Falsy(optional) == optional.none \/ optional.value = ""

\* getattr(settings, name, None)
GetAttr(conf, name) == IF name \in DOMAIN conf THEN Some(conf[name]) ELSE NoneValue

\* AIAgentExceptionMiddleware.__init__
NewMiddleware(conf) ==
    LET agent_endpoint == GetAttr(conf, "AI_AGENT_ENDPOINT")
        agent_enabled == Get(conf, "AI_AGENT_ENABLED", TRUE)
    IN  [class |-> "AIAgentExceptionMiddleware",
         agent_endpoint |-> agent_endpoint,
         agent_timeout |-> Get(conf, "AI_AGENT_TIMEOUT", 5),
         agent_enabled |-> IF agent_enabled /\ Falsy(agent_endpoint)
                           THEN FALSE ELSE agent_enabled]

\* AsyncAIAgentExceptionMiddleware inherits __init__
NewAsyncMiddleware(conf) ==
    [NewMiddleware(conf) EXCEPT !.class = "AsyncAIAgentExceptionMiddleware"]

\* _collect_exception_context: [ok, context] or [ok, error].  dict(request.GET)
\* parses the query string when the view has not, and raises what the parse
\* raises.
CollectExceptionContext(conf, now, req, exception) ==
    IF ~req.GET.ok THEN [ok |-> FALSE, error |-> req.GET.error]
    ELSE [ok |-> TRUE,
          context |->
              [timestamp |-> IsoFormat(now),
               environment |-> IF ~conf.DEBUG THEN "production" ELSE "development",
               request |-> [path |-> req.path, method |-> req.method,
                            query_params |-> req.GET.value],
               exception |-> [type |-> exception.type, message |-> exception.message]]]

(***************************************************************************)
(* Middleware inputs                                                       *)
(***************************************************************************)

AgentEndpoint == "https://agent.example.com/api/exceptions"

MiddlewareSettings ==
    {[DEBUG |-> FALSE],
     [DEBUG |-> FALSE, AI_AGENT_ENABLED |-> TRUE],
     [DEBUG |-> FALSE, AI_AGENT_ENABLED |-> FALSE],
     [DEBUG |-> FALSE, AI_AGENT_ENDPOINT |-> ""],
     [DEBUG |-> FALSE, AI_AGENT_ENDPOINT |-> "", AI_AGENT_ENABLED |-> TRUE],
     [DEBUG |-> FALSE, AI_AGENT_ENDPOINT |-> AgentEndpoint],
     [DEBUG |-> TRUE, AI_AGENT_ENDPOINT |-> AgentEndpoint],
     [DEBUG |-> FALSE, AI_AGENT_ENDPOINT |-> AgentEndpoint, AI_AGENT_ENABLED |-> TRUE],
     [DEBUG |-> FALSE, AI_AGENT_ENDPOINT |-> AgentEndpoint, AI_AGENT_ENABLED |-> FALSE]}

\* request.GET: the parsed query string, or the TooManyFieldsSent that
\* QueryDict raises for a query string over DATA_UPLOAD_MAX_NUMBER_FIELDS.
QueryDicts ==
    {[ok |-> TRUE, value |-> [page |-> "1"]],
     [ok |-> FALSE,
      error |-> "The number of GET/POST parameters exceeded settings.DATA_UPLOAD_MAX_NUMBER_FIELDS."]}

HttpRequests == [path : {"/api/users/"}, method : {"GET", "POST"}, GET : QueryDicts]

Exceptions ==
    {[type |-> "ValueError", message |-> "invalid literal for int()"],
     [type |-> "TooManyFieldsSent",
      message |-> "The number of GET/POST parameters exceeded settings.DATA_UPLOAD_MAX_NUMBER_FIELDS."]}

\* requests.post: the status of the response, or the exception it raised
\* (MissingSchema, a RequestException, for a url that is None or empty;
\* TypeError stands for an exception that is not a RequestException).
PostResults == {"200", "503", "Timeout", "ConnectionError", "MissingSchema", "TypeError"}

\* _send_to_agent_service: the log line that follows the POST
SendLog(posted) ==
    CASE posted = "200" -> LogRecord("INFO", "sent")
      [] posted = "503" -> LogRecord("WARNING", "agent_status")
      [] posted = "Timeout" -> LogRecord("WARNING", "send_timeout")
      [] posted \in {"ConnectionError", "MissingSchema"} -> LogRecord("WARNING", "send_error")
      [] OTHER -> LogRecord("ERROR", "send_unexpected_error")

\* The records of one run of AIAgentExceptionMiddleware._send_to_agent_service
\* by `thread`: the POST, then the log line.
SendRecords(self, exception_data, posted, thread) ==
    <<[kind |-> "send", url |-> self.agent_endpoint, json |-> exception_data,
       timeout |-> self.agent_timeout, result |-> posted, thread |-> thread],
      SendLog(posted)>>

\* The send threads that may be alive at once.
MaxThreads == 1

\* The exception_data of a direct _send_to_agent_service call
ExceptionData ==
    {CollectExceptionContext([DEBUG |-> FALSE], 0, req, exception).context :
        req \in {r \in HttpRequests : r.GET.ok}, exception \in Exceptions}

\* trace: the records of the call in progress; background: what the send
\* threads did since it was entered.
NotHandling == [pc |-> "idle", threads |-> <<>>]

\* process_exception is entered
ProcessException(req, exception) ==
    /\ handling.pc \in {"idle", "returned"}
    /\ handling' = [pc |-> "collect", entry |-> "process_exception",
                    request |-> req, exception |-> exception,
                    trace |-> <<>>, raised |-> FALSE, threads |-> handling.threads,
                    background |-> <<>>]
    /\ UNCHANGED <<middleware, validatorVars, pipeline, urlconf>>
    /\ UNCHANGED <<routerVars, analysisVars, executorVars>>

\* exception_data = self._collect_exception_context(request, exception)
CollectContext ==
    LET collected == CollectExceptionContext(settings, clock, handling.request,
                                             handling.exception)
    IN  /\ handling.pc = "collect"
        /\ handling' =
               IF collected.ok
               THEN [handling EXCEPT !.pc = "log"] @@
                    [exception_data |-> collected.context]
               ELSE [handling EXCEPT !.pc = "except"] @@ [error |-> collected.error]
        /\ UNCHANGED <<middleware, validatorVars, pipeline, urlconf>>
        /\ UNCHANGED <<routerVars, analysisVars, executorVars>>

\* logger.error(f"Unhandled exception: {exception_data['exception_type']}", ...)
\* and "if self.agent_enabled": the subscript is evaluated first, and is a
\* KeyError for a context without that key.
LogException ==
    /\ handling.pc = "log"
    /\ handling' =
           IF "exception_type" \in DOMAIN handling.exception_data
           THEN [handling EXCEPT
                    !.pc = IF middleware.agent_enabled THEN "send" ELSE "return",
                    !.trace = Append(@, LogRecord("ERROR", "unhandled_exception"))]
           ELSE [handling EXCEPT !.pc = "except"] @@ [error |-> "'exception_type'"]
    /\ UNCHANGED <<middleware, validatorVars, pipeline, urlconf>>
    /\ UNCHANGED <<routerVars, analysisVars, executorVars>>

\* _send_to_agent_service(exception_data) called on its own, as the thread of
\* AsyncAIAgentExceptionMiddleware calls the inherited one.
SendToAgentServiceCall(exception_data) ==
    /\ handling.pc \in {"idle", "returned"}
    /\ handling' = [pc |-> "send", entry |-> "_send_to_agent_service",
                    exception_data |-> exception_data,
                    trace |-> <<>>, raised |-> FALSE, threads |-> handling.threads,
                    background |-> <<>>]
    /\ UNCHANGED <<middleware, validatorVars, pipeline, urlconf>>
    /\ UNCHANGED <<routerVars, analysisVars, executorVars>>

\* Where the caller of _send_to_agent_service continues
AfterSend(h) == IF h.entry = "process_exception" THEN "return" ELSE "returned"

\* AIAgentExceptionMiddleware._send_to_agent_service: the POST and the log
\* line for its result; every exception of the POST is caught inside.
SendToAgentService(posted) ==
    /\ handling.pc = "send"
    /\ middleware.class = "AIAgentExceptionMiddleware"
    /\ Falsy(middleware.agent_endpoint) <=> posted = "MissingSchema"
    /\ handling' = [handling EXCEPT
           !.pc = AfterSend(handling),
           !.trace = @ \o SendRecords(middleware, handling.exception_data, posted,
                                      "caller")]
    /\ UNCHANGED <<middleware, validatorVars, pipeline, urlconf>>
    /\ UNCHANGED <<routerVars, analysisVars, executorVars>>

AsyncSendInline(h, exception_data) ==
    [h EXCEPT !.pc = AfterSend(h),
              !.trace = @ \o SendRecords(middleware, exception_data, "200", "caller")]

\* AsyncAIAgentExceptionMiddleware._send_to_agent_service: Thread(target=
\* send_async, daemon=True).start(), logger.debug, return
AsyncSend(h, exception_data) ==
    [h EXCEPT !.pc = AfterSend(h),
              !.threads = Append(@, [target |-> "send_async",
                                     exception_data |-> exception_data]),
              !.trace = Append(@, LogRecord("DEBUG", "queued"))]

AsyncSendToAgentService ==
    /\ handling.pc = "send"
    /\ middleware.class = "AsyncAIAgentExceptionMiddleware"
    /\ Len(handling.threads) < MaxThreads
    /\ handling' = AsyncSend(handling, handling.exception_data)
    /\ UNCHANGED <<middleware, validatorVars, pipeline, urlconf>>
    /\ UNCHANGED <<routerVars, analysisVars, executorVars>>

\* send_async in its thread: the inherited _send_to_agent_service, then the
\* thread ends.
ThreadOutcome(h, i, posted) ==
    [h EXCEPT !.threads = [k \in 1..(Len(@) - 1) |-> IF k < i THEN @[k] ELSE @[k + 1]],
              !.background = @ \o SendRecords(middleware, h.threads[i].exception_data,
                                              posted, "send_async")]

SendAsync(i, posted) ==
    /\ i \in DOMAIN handling.threads
    /\ Falsy(middleware.agent_endpoint) <=> posted = "MissingSchema"
    /\ handling' = ThreadOutcome(handling, i, posted)
    /\ UNCHANGED <<middleware, validatorVars, pipeline, urlconf>>
    /\ UNCHANGED <<routerVars, analysisVars, executorVars>>

LogMiddlewareErrorReraise ==
    /\ handling.pc = "except"
    /\ handling' = [handling EXCEPT !.pc = "returned", !.raised = TRUE]
    /\ UNCHANGED <<middleware, validatorVars, pipeline, urlconf>>
    /\ UNCHANGED <<routerVars, analysisVars, executorVars>>

\* except Exception as e: logger.error("Error in AIAgentExceptionMiddleware")
LogMiddlewareError ==
    /\ handling.pc = "except"
    /\ handling' = [handling EXCEPT
           !.pc = "return",
           !.trace = Append(@, LogRecord("ERROR", "middleware_error"))]
    /\ UNCHANGED <<middleware, validatorVars, pipeline, urlconf>>
    /\ UNCHANGED <<routerVars, analysisVars, executorVars>>

\* return None
ReturnNone ==
    /\ handling.pc = "return"
    /\ handling' = [handling EXCEPT !.pc = "returned"] @@ [result |-> NoneValue]
    /\ UNCHANGED <<middleware, validatorVars, pipeline, urlconf>>
    /\ UNCHANGED <<routerVars, analysisVars, executorVars>>

MiddlewareNext ==
    \/ \E req \in HttpRequests, exception \in Exceptions : ProcessException(req, exception)
    \/ CollectContext
    \/ LogException
    \/ \E exception_data \in ExceptionData : SendToAgentServiceCall(exception_data)
    \/ \E posted \in PostResults : SendToAgentService(posted)
    \/ AsyncSendToAgentService
    \/ \E i \in 1..MaxThreads, posted \in PostResults : SendAsync(i, posted)
    \/ LogMiddlewareError
    \/ ReturnNone

(***************************************************************************)
(* The pipeline: analysis, decision (OrchestratorAgent in                  *)
(* ai_agent_service.py, or EventRouter through views.decide_action), then  *)
(* execution of the decision.                                              *)
(***************************************************************************)

\* OrchestratorAgent._rule_based_decision
RuleBasedDecision(analysis_result, p) ==
    LET category == analysis_result.category
        severity == analysis_result.severity
    IN  IF category = "SECURITY_ISSUE"
        THEN [action |-> "alert_security_team", priority |-> 1,
              metadata |-> [alert_type |-> "security",
                            severity |-> AnalysisSeverityLevel[severity],
                            requires_immediate_action |-> TRUE,
                            analysis |-> analysis_result.reasoning]]
        ELSE IF category = "SYSTEM_ERROR"
        THEN [action |-> "log_and_monitor",
              priority |-> IF severity = "HIGH" THEN 2 ELSE 3,
              metadata |-> [alert_type |-> "system",
                            severity |-> AnalysisSeverityLevel[severity],
                            requires_investigation |-> severity # "LOW",
                            analysis |-> analysis_result.reasoning]]
        ELSE IF category = "VALIDATION_ERROR"
        THEN [action |-> "return_validation_error", priority |-> 4,
              metadata |-> [user_facing |-> TRUE,
                            severity |-> AnalysisSeverityLevel[severity],
                            analysis |-> analysis_result.reasoning]]
        ELSE [action |-> "log_only", priority |-> 5,
              metadata |-> [severity |-> AnalysisSeverityLevel[severity],
                            analysis |-> analysis_result.reasoning]]

\* AIAgentService.process -> OrchestratorAgent.process_event
Process(p) == RuleBasedDecision(Analyze(p), p)

\* The characters of a message as one string
RECURSIVE Str(_)
Str(chars) == IF chars = <<>> THEN "" ELSE Head(chars) \o Str(Tail(chars))

\* views.decide_action on validated data: EventRouter().route(AnalyzedEvent(...))
DecideAction(data) ==
    LET decision == RouteDecision(InitializeRoutingRules(<<>>),
                        [event_type |-> MemberOf(EventType, data.event_type),
                         severity |-> MemberOf(SeverityLevel, data.severity),
                         message |-> data.message,
                         context |-> Get(data, "context", <<>>)])
    IN  [action |-> ActionType[decision.action], priority |-> decision.priority,
         reason |-> decision.reason, metadata |-> decision.metadata]

DecisionPaths == {"AIAgentService.process", "EventRouter.route"}

ExecutionPaths == {"execute_agent_decision", "views.execute_action"}

\* One event: analyze, decide on the given path, execute the decision.
RunPipeline(conf, now, p, path, via, mail) ==
    LET analysis_result == Analyze(p)
        classified == [event_type |-> EventCategory[analysis_result.category],
                       severity |-> AnalysisSeverityLevel[analysis_result.severity],
                       message |-> Str(Get(p, "message", <<>>)),
                       context |-> [field |-> "email"]]
        decision == IF path = "AIAgentService.process" THEN Process(p)
                    ELSE DecideAction(classified)
        data == [action |-> decision.action, priority |-> decision.priority,
                 metadata |-> decision.metadata] @@ classified
    IN  [called |-> TRUE, path |-> path, via |-> via, payload |-> p,
         analysis |-> analysis_result, decision |-> decision, data |-> data,
         response |-> IF via = "execute_agent_decision"
                      THEN ExecuteAgentDecision(conf, now, data, mail)
                      ELSE ViewsExecuteAction(now, data)]

NoPipeline == [called |-> FALSE]

PipelineCall(p, path, via, mail) ==
    /\ ~pipeline.called
    /\ pipeline' = RunPipeline(settings, clock, p, path, via, mail)
    /\ UNCHANGED <<validatorVars, middlewareVars, urlconf>>
    /\ UNCHANGED <<routerVars, analysisVars, executorVars>>

PipelineReturn ==
    /\ pipeline.called
    /\ pipeline' = NoPipeline
    /\ UNCHANGED <<validatorVars, middlewareVars, urlconf>>
    /\ UNCHANGED <<routerVars, analysisVars, executorVars>>

PipelineNext ==
    \/ \E p \in Payloads, path \in DecisionPaths, via \in ExecutionPaths,
          mail \in MailResults : PipelineCall(p, path, via, mail)
    \/ PipelineReturn

(***************************************************************************)
(* agents/views.py as a module, and agents/urls.py                         *)
(*                                                                         *)
(* A function object is [name, line, body]: body "view" for a definition   *)
(* whose body builds Responses, "..." for one whose body is the Ellipsis   *)
(* expression alone, which returns None.                                   *)
(***************************************************************************)

\* The def statements of views.py in the order the import executes them.
ViewsStatements ==
    <<[name |-> "analyze_event", line |-> 76, body |-> "view"],
      [name |-> "decide_action", line |-> 140, body |-> "view"],
      [name |-> "execute_action", line |-> 207, body |-> "view"],
      [name |-> "validate_payload", line |-> 317, body |-> "view"],
      [name |-> "health_check", line |-> 372, body |-> "view"],
      [name |-> "analyze_event", line |-> 405, body |-> "..."],
      [name |-> "decide_action", line |-> 409, body |-> "..."],
      [name |-> "execute_action", line |-> 413, body |-> "..."],
      [name |-> "health_check", line |-> 417, body |-> "..."],
      [name |-> "validate_payload", line |-> 421, body |-> "..."]>>

\* urls.py: route -> the attribute of views it reads
UrlPatterns ==
    [analyze_event |-> "analyze_event", decide_action |-> "decide_action",
     execute_action |-> "execute_action", validate_payload |-> "validate_payload",
     health |-> "health_check"]

\* name = function: a def statement binds the name in the module namespace,
\* replacing what the name was bound to.
Bind(namespace, function) ==
    [n \in DOMAIN namespace \cup {function.name} |->
        IF n = function.name THEN function ELSE namespace[n]]

\* views.analyze_event (75-136) on request.data
ViewAnalyzeEvent(data) ==
    IF {"error_type", "message"} \ DOMAIN data # {} \/ data.message = <<>>
    THEN [status |-> 400, data |-> [error |-> "Invalid request data"]]
    ELSE [status |-> 200,
          data |-> [category |-> EventCategory[Analyze(data).category],
                    severity |-> AnalysisSeverityLevel[Analyze(data).severity],
                    action |-> Process(data).action,
                    priority |-> Process(data).priority,
                    metadata |-> Process(data).metadata]]

\* views.decide_action (139-203) on request.data
ViewDecideAction(data) ==
    IF \/ {"event_type", "severity", "message"} \ DOMAIN data # {}
       \/ data.event_type \notin {EventType[m] : m \in DOMAIN EventType}
       \/ data.severity \notin {SeverityLevel[m] : m \in DOMAIN SeverityLevel}
    THEN [status |-> 400, data |-> [error |-> "Invalid request data"]]
    ELSE [status |-> 200, data |-> DecideAction(data)]

\* views.validate_payload (316-368) on request.data
ViewValidatePayload(data) ==
    LET required_fields == Get(data, "required_fields", <<>>)
        field_schemas == [i \in DOMAIN required_fields |->
                            [name |-> required_fields[i], required |-> TRUE,
                             field_type |-> "ANY", validator |-> "None"]]
    IN  IF required_fields = <<>>
        THEN [status |-> 400, data |-> [error |-> "required_fields must be provided"]]
        ELSE [status |-> 200,
              data |-> Validate(NewPayloadValidator(field_schemas),
                                Get(data, "payload", <<>>)).result]

\* views.health_check (371-396)
ViewHealthCheck ==
    [status |-> 200, data |-> [status |-> "healthy",
                               service |-> "AI Agent Backend Operations",
                               version |-> "1.0.0"]]

\* What calling the function returns: a Response, or None
CallView(function, now, data) ==
    IF function.body = "..." THEN NoneValue
    ELSE CASE function.name = "analyze_event" -> Some(ViewAnalyzeEvent(data))
           [] function.name = "decide_action" -> Some(ViewDecideAction(data))
           [] function.name = "execute_action" ->
                  Some([status |-> ViewsExecuteAction(now, data).status,
                        data |-> ViewsExecuteAction(now, data).result])
           [] function.name = "validate_payload" -> Some(ViewValidatePayload(data))
           [] function.name = "health_check" -> Some(ViewHealthCheck)

\* rest_framework's @api_view wrapper: finalize_response asserts that the
\* function returned a response.
ApiView(function, now, data) ==
    LET returned == CallView(function, now, data)
    IN  IF returned.none
        THEN [raised |-> TRUE,
              error |-> "AssertionError: Expected a Response to be returned "
                        \o "from the view, but received a <class 'NoneType'>"]
        ELSE [raised |-> FALSE, response |-> returned.value]

(***************************************************************************)
(* URL inputs                                                              *)
(***************************************************************************)

\* request.data by route
RouteRequests ==
    [analyze_event |-> Payloads,
     decide_action |->
         [event_type : {"validation_error", "security_issue", "bogus_type"},
          severity : {"low", "critical"},
          message : {"Unauthorized access attempt"}],
     execute_action |-> Decisions,
     validate_payload |->
         {[payload |-> <<>>, required_fields |-> <<>>],
          [payload |-> <<>>, required_fields |-> <<"email">>],
          [payload |-> <<<<"email", [type |-> "str", value |-> <<"a", "@", "b", ".", "c">>]>>>>,
           required_fields |-> <<"email", "age">>]},
     health |-> {<<>>}]

\* views.py not imported yet: its first statement is next.
NotImported == [pc |-> 1, views |-> <<>>, imported |-> FALSE]

\* The import of views.py executes its next def statement.
ExecuteDef ==
    /\ urlconf.pc \in DOMAIN ViewsStatements
    /\ urlconf' = [urlconf EXCEPT
           !.pc = @ + 1,
           !.views = Bind(@, ViewsStatements[urlconf.pc])]
    /\ UNCHANGED <<validatorVars, middlewareVars, pipeline>>
    /\ UNCHANGED <<routerVars, analysisVars, executorVars>>

\* urls.py: "from . import views" has the module fully executed; urlpatterns
\* reads views.<name> once, here.
ImportUrls ==
    /\ urlconf.pc = Len(ViewsStatements) + 1
    /\ ~urlconf.imported
    /\ urlconf' = [pc |-> urlconf.pc, views |-> urlconf.views, imported |-> TRUE,
                   urlpatterns |-> [route \in DOMAIN UrlPatterns |->
                                       urlconf.views[UrlPatterns[route]]]]
    /\ UNCHANGED <<validatorVars, middlewareVars, pipeline>>
    /\ UNCHANGED <<routerVars, analysisVars, executorVars>>

\* A request to a route is given to the function the route is bound to.
Serve(route, data) ==
    /\ urlconf.imported
    /\ urlconf' = [pc |-> urlconf.pc, views |-> urlconf.views, imported |-> TRUE,
                   urlpatterns |-> urlconf.urlpatterns,
                   served |-> [route |-> route, data |-> data,
                               outcome |-> ApiView(urlconf.urlpatterns[route], clock, data)]]
    /\ UNCHANGED <<validatorVars, middlewareVars, pipeline>>
    /\ UNCHANGED <<routerVars, analysisVars, executorVars>>

UrlsNext ==
    \/ ExecuteDef
    \/ ImportUrls
    \/ \E route \in DOMAIN UrlPatterns : \E data \in RouteRequests[route] : Serve(route, data)

(***************************************************************************)
(* Concurrent calls on one EventRouter                                     *)
(***************************************************************************)

\* The threads that call one router
MaxCallers == 2
Callers == 1..MaxCallers

NotCalling == [pc |-> "idle"]
NoCalls == [t \in Callers |-> NotCalling]

\* The custom_rules the shared router is constructed with
SharedRouterRules ==
    {<<>>, <<<<"validation_error", <<<<"high", <<"trigger_workflow", 6>>>>>>>>>>}

\* get_routing_summary: a new dict built from routing_rules.items()
GetRoutingSummary(rules) ==
    [event_type \in {EventType[m] : m \in DOMAIN rules} |->
        LET severity_rules == rules[MemberOf(EventType, event_type)]
        IN  [severity \in {SeverityLevel[m] : m \in DOMAIN severity_rules} |->
                LET rule == severity_rules[MemberOf(SeverityLevel, severity)]
                IN  [action |-> ActionType[rule[1]], priority |-> rule[2]]]]

\* route(event) is entered; argument is the caller's event as it was passed
RouteCall(t, event) ==
    /\ calls[t].pc = "idle"
    /\ calls' = [calls EXCEPT ![t] = [pc |-> "get_action", entry |-> "route",
                                      argument |-> event, event |-> event]]
    /\ UNCHANGED <<custom_rules, routing_rules, routed>>
    /\ UNCHANGED <<analysisVars, executorVars, otherVars>>

\* A write to the shared table during the lookup: the rule found is demoted
\* by one priority step.
GetActionStepDemoting(t) ==
    /\ calls[t].pc = "get_action"
    /\ LET event == calls[t].event
           rule == GetActionForEvent(routing_rules, event)
       IN  /\ calls' = [calls EXCEPT ![t] = [pc |-> "generate_reason", rule |-> rule] @@ @]
           /\ routing_rules' =
                  [routing_rules EXCEPT ![event.event_type][event.severity] =
                      <<rule[1], IF rule[2] < 5 THEN rule[2] + 1 ELSE rule[2]>>]
    /\ UNCHANGED <<custom_rules, routed>>
    /\ UNCHANGED <<analysisVars, executorVars, otherVars>>

\* action, priority = self._get_action_for_event(event)
GetActionStep(t) ==
    /\ calls[t].pc = "get_action"
    /\ calls' = [calls EXCEPT ![t] =
                    [pc |-> "generate_reason",
                     rule |-> GetActionForEvent(routing_rules, @.event)] @@ @]
    /\ UNCHANGED <<custom_rules, routing_rules, routed>>
    /\ UNCHANGED <<analysisVars, executorVars, otherVars>>

\* reason = self._generate_reason(event, action)
GenerateReasonStep(t) ==
    /\ calls[t].pc = "generate_reason"
    /\ calls' = [calls EXCEPT ![t] =
                    [pc |-> "build_metadata",
                     reason |-> GenerateReason(@.event, @.rule[1])] @@ @]
    /\ UNCHANGED <<custom_rules, routing_rules, routed>>
    /\ UNCHANGED <<analysisVars, executorVars, otherVars>>

\* metadata = self._build_metadata(event, action)
BuildMetadataStep(t) ==
    /\ calls[t].pc = "build_metadata"
    /\ calls' = [calls EXCEPT ![t] =
                    [pc |-> "return",
                     metadata |-> BuildMetadata(@.event, @.rule[1])] @@ @]
    /\ UNCHANGED <<custom_rules, routing_rules, routed>>
    /\ UNCHANGED <<analysisVars, executorVars, otherVars>>

\* return RoutingDecision(action=..., priority=..., reason=..., metadata=...)
RouteReturn(t) ==
    /\ calls[t].pc = "return"
    /\ calls' = [calls EXCEPT ![t] =
                    [pc |-> "returned", entry |-> "route",
                     argument |-> @.argument, event |-> @.event,
                     decision |-> [action |-> @.rule[1], priority |-> @.rule[2],
                                   reason |-> @.reason, metadata |-> @.metadata]]]
    /\ UNCHANGED <<custom_rules, routing_rules, routed>>
    /\ UNCHANGED <<analysisVars, executorVars, otherVars>>

\* One get_routing_summary call, its loop over routing_rules taken in one step
GetRoutingSummaryCall(t) ==
    /\ calls[t].pc = "idle"
    /\ calls' = [calls EXCEPT ![t] = [pc |-> "returned", entry |-> "get_routing_summary",
                                      summary |-> GetRoutingSummary(routing_rules)]]
    /\ UNCHANGED <<custom_rules, routing_rules, routed>>
    /\ UNCHANGED <<analysisVars, executorVars, otherVars>>

\* The caller takes the result and is ready for its next call
CallerResumes(t) ==
    /\ calls[t].pc = "returned"
    /\ calls' = [calls EXCEPT ![t] = NotCalling]
    /\ UNCHANGED <<custom_rules, routing_rules, routed>>
    /\ UNCHANGED <<analysisVars, executorVars, otherVars>>

RouterCallsNext ==
    \E t \in Callers :
        \/ \E event \in AnalyzedEvents : RouteCall(t, event)
        \/ GetActionStep(t)
        \/ GenerateReasonStep(t)
        \/ BuildMetadataStep(t)
        \/ RouteReturn(t)
        \/ GetRoutingSummaryCall(t)
        \/ CallerResumes(t)


(***************************************************************************)
(* Specifications                                                          *)
(***************************************************************************)

\* Calls of route, with the wall clock advancing between them.
RouterNext ==
    \/ \E event \in AnalyzedEvents : Route(event)
    \/ Tick

ExecutorNext ==
    \/ Tick
    \/ Return
    \/ NewExecutor
    \/ \E data \in CompleteDecisions, mail \in MailResults : ExecuteCall(data, mail)
    \/ \E data \in Decisions, mail \in MailResults : ExecuteAgentDecisionCall(data, mail)
    \/ \E data \in Decisions : ViewsExecuteActionCall(data)

(***************************************************************************)
(* Specifications: one per component, the other components at rest.        *)
(***************************************************************************)

InitRouter ==
    /\ custom_rules \in CustomRuleDicts
    /\ routing_rules = InitializeRoutingRules(custom_rules)
    /\ routed = NotRouted
    /\ calls = NoCalls
    /\ payload = <<>>
    /\ analysis = NotAnalyzed
    /\ settings = DefaultSettings
    /\ clock = 0
    /\ executor = [execution_time |-> 0]
    /\ request = <<>>
    /\ effects = <<>>
    /\ outcome = NotExecuted
    /\ schema = <<>>
    /\ validated = NotValidated
    /\ middleware = NewMiddleware(settings)
    /\ handling = NotHandling
    /\ pipeline = NoPipeline
    /\ urlconf = NotImported

InitAnalysis ==
    /\ custom_rules = <<>>
    /\ routing_rules = InitializeRoutingRules(custom_rules)
    /\ routed = NotRouted
    /\ calls = NoCalls
    /\ payload = <<>>
    /\ analysis = NotAnalyzed
    /\ settings = DefaultSettings
    /\ clock = 0
    /\ executor = [execution_time |-> 0]
    /\ request = <<>>
    /\ effects = <<>>
    /\ outcome = NotExecuted
    /\ schema = <<>>
    /\ validated = NotValidated
    /\ middleware = NewMiddleware(settings)
    /\ handling = NotHandling
    /\ pipeline = NoPipeline
    /\ urlconf = NotImported

InitExecutor ==
    /\ custom_rules = <<>>
    /\ routing_rules = InitializeRoutingRules(custom_rules)
    /\ routed = NotRouted
    /\ calls = NoCalls
    /\ payload = <<>>
    /\ analysis = NotAnalyzed
    /\ settings \in SettingsChoices
    /\ clock = 0
    /\ executor = [execution_time |-> 0]
    /\ request = <<>>
    /\ effects = <<>>
    /\ outcome = NotExecuted
    /\ schema = <<>>
    /\ validated = NotValidated
    /\ middleware = NewMiddleware(settings)
    /\ handling = NotHandling
    /\ pipeline = NoPipeline
    /\ urlconf = NotImported

InitValidator ==
    /\ custom_rules = <<>>
    /\ routing_rules = InitializeRoutingRules(custom_rules)
    /\ routed = NotRouted
    /\ calls = NoCalls
    /\ payload = <<>>
    /\ analysis = NotAnalyzed
    /\ settings = DefaultSettings
    /\ clock = 0
    /\ executor = [execution_time |-> 0]
    /\ request = <<>>
    /\ effects = <<>>
    /\ outcome = NotExecuted
    /\ schema \in Schemas
    /\ validated = NotValidated
    /\ middleware = NewMiddleware(settings)
    /\ handling = NotHandling
    /\ pipeline = NoPipeline
    /\ urlconf = NotImported

InitMiddleware ==
    /\ custom_rules = <<>>
    /\ routing_rules = InitializeRoutingRules(custom_rules)
    /\ routed = NotRouted
    /\ calls = NoCalls
    /\ payload = <<>>
    /\ analysis = NotAnalyzed
    /\ settings \in MiddlewareSettings
    /\ clock = 0
    /\ executor = [execution_time |-> 0]
    /\ request = <<>>
    /\ effects = <<>>
    /\ outcome = NotExecuted
    /\ schema = <<>>
    /\ validated = NotValidated
    /\ middleware \in {NewMiddleware(settings), NewAsyncMiddleware(settings)}
    /\ handling = NotHandling
    /\ pipeline = NoPipeline
    /\ urlconf = NotImported

InitPipeline ==
    /\ custom_rules = <<>>
    /\ routing_rules = InitializeRoutingRules(custom_rules)
    /\ routed = NotRouted
    /\ calls = NoCalls
    /\ payload = <<>>
    /\ analysis = NotAnalyzed
    /\ settings \in {DefaultSettings, [ADMIN_NOTIFICATION_EMAILS |-> <<"admin@example.com">>]}
    /\ clock = 0
    /\ executor = [execution_time |-> 0]
    /\ request = <<>>
    /\ effects = <<>>
    /\ outcome = NotExecuted
    /\ schema = <<>>
    /\ validated = NotValidated
    /\ middleware = NewMiddleware(settings)
    /\ handling = NotHandling
    /\ pipeline = NoPipeline
    /\ urlconf = NotImported

InitUrls ==
    /\ custom_rules = <<>>
    /\ routing_rules = InitializeRoutingRules(custom_rules)
    /\ routed = NotRouted
    /\ calls = NoCalls
    /\ payload = <<>>
    /\ analysis = NotAnalyzed
    /\ settings = DefaultSettings
    /\ clock = 0
    /\ executor = [execution_time |-> 0]
    /\ request = <<>>
    /\ effects = <<>>
    /\ outcome = NotExecuted
    /\ schema = <<>>
    /\ validated = NotValidated
    /\ middleware = NewMiddleware(settings)
    /\ handling = NotHandling
    /\ pipeline = NoPipeline
    /\ urlconf = NotImported

InitRouterCalls ==
    /\ custom_rules \in SharedRouterRules
    /\ routing_rules = InitializeRoutingRules(custom_rules)
    /\ routed = NotRouted
    /\ calls = NoCalls
    /\ payload = <<>>
    /\ analysis = NotAnalyzed
    /\ settings = DefaultSettings
    /\ clock = 0
    /\ executor = [execution_time |-> 0]
    /\ request = <<>>
    /\ effects = <<>>
    /\ outcome = NotExecuted
    /\ schema = <<>>
    /\ validated = NotValidated
    /\ middleware = NewMiddleware(settings)
    /\ handling = NotHandling
    /\ pipeline = NoPipeline
    /\ urlconf = NotImported

SpecRouter == InitRouter /\ [][RouterNext]_vars

SpecAnalysis == InitAnalysis /\ [][AnalysisNext]_vars

SpecExecutor == InitExecutor /\ [][ExecutorNext]_vars

SpecValidator == InitValidator /\ [][ValidatorNext]_vars

SpecMiddleware == InitMiddleware /\ [][MiddlewareNext]_vars

SpecPipeline == InitPipeline /\ [][PipelineNext]_vars

SpecUrls == InitUrls /\ [][UrlsNext]_vars

SpecRouterCalls == InitRouterCalls /\ [][RouterCallsNext]_vars

(***************************************************************************)
(* Claims                                                                  *)
(***************************************************************************)

\* The default table as documented, by value tokens.
DocumentedTable ==
    [security_issue |->
        [low |-> <<"notify_admin", 3>>, medium |-> <<"notify_admin", 2>>,
         high |-> <<"escalate", 1>>, critical |-> <<"escalate", 1>>],
     system_error |->
        [low |-> <<"log_only", 4>>, medium |-> <<"notify_admin", 3>>,
         high |-> <<"trigger_workflow", 2>>, critical |-> <<"escalate", 1>>],
     performance_issue |->
        [low |-> <<"log_only", 4>>, medium |-> <<"notify_admin", 3>>,
         high |-> <<"trigger_workflow", 2>>, critical |-> <<"trigger_workflow", 2>>],
     validation_error |->
        [low |-> <<"log_only", 5>>, medium |-> <<"log_only", 4>>,
         high |-> <<"notify_admin", 3>>, critical |-> <<"notify_admin", 3>>],
     ignorable |->
        [low |-> <<"log_only", 5>>, medium |-> <<"log_only", 5>>,
         high |-> <<"log_only", 5>>, critical |-> <<"log_only", 5>>]]

\* What route returned for the routed event, by value tokens.
RoutedRule == <<ActionType[routed.decision.action], routed.decision.priority>>

AnalyzedMessage == Lower(Get(payload, "message", <<>>))

Classified(category, severity, confidence) ==
    /\ EventCategory[analysis.category] = category
    /\ AnalysisSeverityLevel[analysis.severity] = severity
    /\ analysis.confidence = confidence

\* C2: analyze classifies every message by exactly one of the four rules, in
\* the order security > validation > system > default, case-insensitively; a
\* message with keywords of several rules is classified by the earliest rule.
C2_Classification ==
    analysis.called =>
        LET security   == AnyKeyword(SecurityKeywords, AnalyzedMessage)
            validation == AnyKeyword(ValidationKeywords, AnalyzedMessage)
            system     == AnyKeyword(SystemKeywords, AnalyzedMessage)
        IN  /\ security => Classified("security_issue", "high", 85)
            /\ (~security /\ validation) => Classified("validation_error", "low", 90)
            /\ (~security /\ ~validation /\ system) =>
                   Classified("system_error", "medium", 80)
            /\ (~security /\ ~validation /\ ~system) =>
                   Classified("ignorable", "low", 70)
            /\ Get(payload, "message", <<>>) =
                   <<"U", "n", "a", "u", "t", "h", "o", "r", "i", "z", "e", "d", " ",
                     "i", "n", "v", "a", "l", "i", "d">>
                   => Classified("security_issue", "high", 85)
            /\ Get(payload, "message", <<>>) =
                   <<"i", "n", "v", "a", "l", "i", "d", " ",
                     "T", "I", "M", "E", "O", "U", "T">>
                   => Classified("validation_error", "low", 90)
            /\ Get(payload, "message", <<>>) = <<"T", "I", "M", "E", "O", "U", "T">>
                   => Classified("system_error", "medium", 80)

C2_Witness ==
    /\ analysis.called
    /\ AnyKeyword(SecurityKeywords, AnalyzedMessage)
    /\ AnyKeyword(ValidationKeywords, AnalyzedMessage)
    /\ Get(payload, "message", <<>>) # AnalyzedMessage
    /\ analysis.category = "SECURITY_ISSUE"

\* The call being served was given a decision that passes the serializer.
ValidatedDecision == outcome.called /\ SerializerErrors(request) = {}

ViaExecutor ==
    /\ outcome.called
    /\ outcome.via \in {"ActionExecutor.execute", "execute_agent_decision"}

\* C3: executing escalate returns success=true and action 'escalate' for
\* every validated decision, whatever the recipient configuration and the
\* outcome of the sub-steps.
C3_EscalateSucceeds ==
    (ValidatedDecision /\ request.action = "escalate") =>
        /\ ~outcome.raised
        /\ outcome.result.success = TRUE
        /\ outcome.result.action = "escalate"

EnteredAt(i, handler) ==
    /\ effects[i].kind = "call"
    /\ effects[i].handler = handler

MailSent == \E k \in DOMAIN effects : effects[k].kind = "send_mail" /\ effects[k].result = "sent"

\* C4: ActionExecutor's escalate logs at critical level, then runs the
\* notify_admin step once, then the trigger_workflow step once (also when the
\* notification failed), and reports the two sub-steps' success flags in
\* details.notification_sent and details.workflow_triggered.
C4_EscalateSteps ==
    (ValidatedDecision /\ ViaExecutor /\ request.action = "escalate") =>
        /\ ~outcome.raised
        /\ Len(effects) >= 2
        /\ effects[2] = LogRecord("CRITICAL", "escalation")
        /\ \E i, j \in DOMAIN effects :
              /\ 2 < i /\ i < j
              /\ EnteredAt(i, "_handle_notify_admin")
              /\ EnteredAt(j, "_handle_trigger_workflow")
              /\ \A k \in DOMAIN effects :
                    /\ EnteredAt(k, "_handle_notify_admin") => k = i
                    /\ EnteredAt(k, "_handle_trigger_workflow") => k = j
        /\ "details" \in DOMAIN outcome.result
        /\ outcome.result.details.notification_sent = MailSent
        /\ outcome.result.details.workflow_triggered = TRUE

NoAdminEmails == GetAdminEmails(settings).ok /\ GetAdminEmails(settings).emails = <<>>

\* C5: executing notify_admin with an empty admin recipient list returns
\* success=false with message 'No admin emails configured', attempts no
\* delivery, does not raise, and has emitted the log_only record.
C5_NoAdminEmails ==
    (ValidatedDecision /\ request.action = "notify_admin" /\ NoAdminEmails) =>
        /\ ~outcome.raised
        /\ outcome.result.success = FALSE
        /\ outcome.result.message = "No admin emails configured"
        /\ \A k \in DOMAIN effects : effects[k].kind # "send_mail"
        /\ \E k \in DOMAIN effects :
              effects[k].kind = "log" /\ effects[k].what = "event"

\* C6: ActionExecutor.execute never raises: a fault raised while a handler
\* runs (a failed delivery inside notify_admin included) comes back as an
\* outcome with success=false whose message carries the error.
C6_ExecuteNeverRaises ==
    (outcome.called /\ ViaExecutor /\ SerializerErrors(request) \subseteq {"action"}) =>
        /\ ~outcome.raised
        /\ request.action = "escalate" =>
              /\ outcome.result.success = FALSE
              /\ outcome.result.message = "Failed to execute action: " \o OverwriteError
        /\ (request.action \in {"notify_admin", "trigger_workflow"}
               /\ ~IsDict(request.metadata)) =>
              /\ outcome.result.success = FALSE
              /\ outcome.result.message = "Failed to execute action: " \o
                     AttributeError(request.metadata,
                         IF request.action = "notify_admin" THEN "items" ELSE "get")
        /\ (request.action = "notify_admin" /\ IsDict(request.metadata)
               /\ ~GetAdminEmails(settings).ok) =>
              /\ outcome.result.success = FALSE
              /\ outcome.result.message =
                     "Failed to execute action: " \o GetAdminEmails(settings).error
        /\ \A k \in DOMAIN effects :
              (effects[k].kind = "send_mail" /\ effects[k].result # "sent") =>
                  /\ outcome.result.success = FALSE
                  /\ outcome.result.message =
                         "Failed to send notification: " \o effects[k].result

C6_Witness ==
    /\ outcome.called
    /\ outcome.via = "ActionExecutor.execute"
    /\ request.action = "notify_admin"
    /\ \E k \in DOMAIN effects :
          effects[k].kind = "send_mail" /\ effects[k].result = "Connection refused"
    /\ outcome.result.success = FALSE
    /\ ~outcome.raised

KnownActions == {"log_only", "notify_admin", "trigger_workflow", "escalate"}

\* C7: for an action token outside the four actions, execute returns
\* success=false with message 'Unknown action: <token>', runs no handler (no
\* log record, no notification, no workflow trigger) and does not raise.
C7_UnknownAction ==
    (outcome.called /\ request.action \notin KnownActions) =>
        /\ ~outcome.raised
        /\ effects = <<>>
        /\ outcome.via = "ActionExecutor.execute" =>
              /\ outcome.result.success = FALSE
              /\ outcome.result.message = "Unknown action: " \o request.action

C7_Witness ==
    /\ outcome.called
    /\ outcome.via = "ActionExecutor.execute"
    /\ request.action = "restart_service"
    /\ outcome.result.message = "Unknown action: restart_service"
    /\ effects = <<>>

\* The override entries of custom_rules for the routed pair whose three
\* tokens are all valid, as (action value, priority).
ValidOverrides ==
    {<<custom_rules[i][2][j][2][1], custom_rules[i][2][j][2][2]>> :
        <<i, j>> \in
            {<<i, j>> \in (DOMAIN custom_rules) \X (1..MaxOverrideEntries) :
                /\ j \in DOMAIN custom_rules[i][2]
                /\ custom_rules[i][1] = EventType[routed.event.event_type]
                /\ custom_rules[i][2][j][1] = SeverityLevel[routed.event.severity]
                /\ IsValueOf(ActionType, custom_rules[i][2][j][2][1])}}

\* C8: after construction with any custom_rules, every override entry whose
\* tokens are all valid is in effect, whatever other entries carry unknown
\* tokens and wherever they come in iteration order; every other pair keeps
\* its default.
C8_ValidOverridesApplied ==
    routed.called =>
        /\ \A rule \in ValidOverrides : RoutedRule = rule
        /\ ValidOverrides = {} =>
              RoutedRule = DocumentedTable[EventType[routed.event.event_type]]
                                          [SeverityLevel[routed.event.severity]]

\* C9: every RoutingDecision returned by route has a priority in 1..5, for
\* every router, routers with custom_rules of valid tokens included.
C9_PriorityInRange ==
    routed.called => routed.decision.priority \in 1..5

\* C10: log_only returns success=true for every severity and logs at the
\* level derived from the severity (low INFO, medium WARNING, high ERROR,
\* critical CRITICAL), which details.log_level reports.
C10_LogLevel ==
    (ValidatedDecision /\ request.action = "log_only") =>
        LET level == CASE request.severity = "low" -> "INFO"
                       [] request.severity = "medium" -> "WARNING"
                       [] request.severity = "high" -> "ERROR"
                       [] request.severity = "critical" -> "CRITICAL"
        IN  /\ ~outcome.raised
            /\ outcome.result.success = TRUE
            /\ \E k \in DOMAIN effects :
                  effects[k] = LogRecord(level, "event")
            /\ outcome.result.details.log_level = level

\* C11: trigger_workflow takes the workflow type from metadata.workflow_type,
\* 'generic_handler' when the metadata has none, reports it in
\* details.workflow_type and in the message, and returns success=true for
\* every validated decision.
C11_TriggerWorkflow ==
    (ValidatedDecision /\ request.action = "trigger_workflow") =>
        LET workflow_type ==
                IF IsDict(request.metadata) /\ "workflow_type" \in DOMAIN request.metadata
                THEN request.metadata.workflow_type
                ELSE "generic_handler"
        IN  /\ ~outcome.raised
            /\ "success" \in DOMAIN outcome.result
            /\ outcome.result.success = TRUE
            /\ outcome.result.details.workflow_type = workflow_type
            /\ outcome.result.message = "Workflow triggered: " \o workflow_type

\* The action route chose, as its value token.
RoutedAction == ActionType[routed.decision.action]

RoutedMetadata == routed.decision.metadata

\* C12: in every decision route returns, metadata.requires_immediate_action
\* is true exactly when the action is escalate or trigger_workflow, and
\* metadata.user_facing exactly when the event type is validation_error, for
\* default and overridden tables.
C12_MetadataFlags ==
    routed.called =>
        /\ RoutedMetadata.requires_immediate_action
               = (RoutedAction = "escalate" \/ RoutedAction = "trigger_workflow")
        /\ RoutedMetadata.user_facing
               = (EventType[routed.event.event_type] = "validation_error")

C12_Witness ==
    /\ routed.called
    /\ custom_rules # <<>>
    /\ routed.event.event_type = "VALIDATION_ERROR"
    /\ RoutedAction = "trigger_workflow"
    /\ RoutedMetadata.requires_immediate_action
    /\ RoutedMetadata.user_facing

\* C13: the action-specific metadata keys are present exactly for their
\* action: notify_channels iff escalate (email, sms, slack) or notify_admin
\* (email, slack); escalation_level = 'immediate' iff escalate; workflow_type
\* iff trigger_workflow; log_only has none of the three.
C13_MetadataKeys ==
    routed.called =>
        LET keys == DOMAIN RoutedMetadata
        IN  /\ ("notify_channels" \in keys) = (RoutedAction \in {"escalate", "notify_admin"})
            /\ RoutedAction = "escalate" =>
                   RoutedMetadata.notify_channels = <<"email", "sms", "slack">>
            /\ RoutedAction = "notify_admin" =>
                   RoutedMetadata.notify_channels = <<"email", "slack">>
            /\ ("escalation_level" \in keys) = (RoutedAction = "escalate")
            /\ RoutedAction = "escalate" => RoutedMetadata.escalation_level = "immediate"
            /\ ("workflow_type" \in keys) = (RoutedAction = "trigger_workflow")
            /\ RoutedAction = "log_only" =>
                   keys \cap {"notify_channels", "escalation_level", "workflow_type"} = {}

C13_Witness ==
    /\ routed.called
    /\ RoutedAction = "escalate"
    /\ custom_rules # <<>>
    /\ routed.event.event_type = "SECURITY_ISSUE"
    /\ "escalation_level" \in DOMAIN RoutedMetadata
    /\ "workflow_type" \notin DOMAIN RoutedMetadata

\* C14: whenever route chooses trigger_workflow, metadata.workflow_type is
\* system_recovery for system_error, performance_optimization for
\* performance_issue, security_response for security_issue and
\* generic_handler for the other event types, which only an override reaches.
C14_WorkflowType ==
    (routed.called /\ RoutedAction = "trigger_workflow") =>
        LET event_type == EventType[routed.event.event_type]
        IN  /\ event_type = "system_error" =>
                   RoutedMetadata.workflow_type = "system_recovery"
            /\ event_type = "performance_issue" =>
                   RoutedMetadata.workflow_type = "performance_optimization"
            /\ event_type = "security_issue" =>
                   RoutedMetadata.workflow_type = "security_response"
            /\ event_type \in {"validation_error", "ignorable"} =>
                   /\ RoutedMetadata.workflow_type = "generic_handler"
                   /\ custom_rules # <<>>

C14_Witness ==
    /\ routed.called
    /\ RoutedAction = "trigger_workflow"
    /\ \E i, j \in DOMAIN custom_rules :
          custom_rules[i][1] = "validation_error" /\ custom_rules[j][1] = "security_issue"
    /\ routed.event.event_type = "VALIDATION_ERROR"
    /\ RoutedMetadata.workflow_type = "generic_handler"

RequiredNames == {schema[i].name : i \in {k \in DOMAIN schema : schema[k].required}}

ValidatedKeys == {validated.payload[i][1] : i \in DOMAIN validated.payload}

InvalidFields ==
    IF validated.result.invalid_fields.none THEN <<>>
    ELSE validated.result.invalid_fields.value

InvalidNames == {InvalidFields[i][1] : i \in DOMAIN InvalidFields}

\* C16: validate reports as missing_fields exactly the required schema names
\* that are not keys of the payload, in ascending order; keys the schema does
\* not declare are neither missing nor invalid, so a payload with all
\* required fields of valid type plus extra fields is valid.
C16_MissingFields ==
    validated.called =>
        LET missing == validated.result.missing_fields
        IN  /\ {missing[i] : i \in DOMAIN missing} = RequiredNames \ ValidatedKeys
            /\ \A i, j \in DOMAIN missing : i < j => Before(missing[i], missing[j])
            /\ \A name \in ValidatedKeys :
                  (\A i \in DOMAIN schema : schema[i].name # name) =>
                      /\ name \notin InvalidNames
                      /\ \A i \in DOMAIN missing : missing[i] # name
            /\ (RequiredNames \subseteq ValidatedKeys /\ InvalidNames = {}) =>
                  validated.result.is_valid

C16_Witness ==
    /\ validated.called
    /\ "extra" \in ValidatedKeys
    /\ RequiredNames = {"email"}
    /\ "email" \in ValidatedKeys
    /\ validated.result.is_valid
    /\ validated.result.missing_fields = <<>>

\* C17: is_valid is true exactly when nothing is missing and nothing is
\* invalid; the message is 'Validation successful' exactly when is_valid, and
\* otherwise the missing clause and the invalid clause, each only when
\* non-empty, joined by '; '; invalid_fields is None exactly when no field is
\* invalid.
C17_ResultShape ==
    validated.called =>
        LET result == validated.result
            missing_clause == "Missing required fields: " \o JoinStr(", ", result.missing_fields)
            invalid_clause ==
                "Invalid fields: " \o
                    JoinStr(", ", [i \in DOMAIN InvalidFields |->
                                     InvalidFields[i][1] \o " (" \o InvalidFields[i][2] \o ")"])
        IN  /\ result.is_valid = (result.missing_fields = <<>> /\ InvalidFields = <<>>)
            /\ (result.message = "Validation successful") = result.is_valid
            /\ (result.missing_fields # <<>> /\ InvalidFields # <<>>) =>
                  result.message = missing_clause \o "; " \o invalid_clause
            /\ (result.missing_fields # <<>> /\ InvalidFields = <<>>) =>
                  result.message = missing_clause
            /\ (result.missing_fields = <<>> /\ InvalidFields # <<>>) =>
                  result.message = invalid_clause
            /\ ~result.invalid_fields.none => result.invalid_fields.value # <<>>

C17_Witness ==
    /\ validated.called
    /\ validated.result.message =
           "Missing required fields: age; Invalid fields: email (Failed custom validation)"
    /\ ~validated.result.is_valid

\* The payload's value of a field, and the schema entry in force for it.
ValueOf(name) ==
    validated.payload[CHOOSE i \in DOMAIN validated.payload :
                         validated.payload[i][1] = name][2]

SchemaOf(name) == schema[CHOOSE i \in DOMAIN schema : schema[i].name = name]

ErrorOf(name) == InvalidFields[CHOOSE i \in DOMAIN InvalidFields : InvalidFields[i][1] = name][2]

\* C18: a field's custom validator is called only after the field passed the
\* type check: a field failing the type check is reported 'Invalid type:
\* expected <type>' and its validator is never called; a field passing the
\* type check and failing the validator is reported 'Failed custom
\* validation'.
C18_ValidatorAfterTypeCheck ==
    validated.called =>
        \A name \in ValidatedKeys :
            (\E i \in DOMAIN schema : schema[i].name = name) =>
                LET field == SchemaOf(name)
                    called == \E k \in DOMAIN validated.validator_calls :
                                  validated.validator_calls[k] = name
                    type_ok == CheckType(ValueOf(name), field.field_type)
                IN  /\ called => type_ok
                    /\ ~type_ok =>
                          /\ name \in InvalidNames
                          /\ ErrorOf(name) = "Invalid type: expected "
                                                \o FieldType[field.field_type]
                    /\ (type_ok /\ field.validator # "None"
                           /\ ~CallValidator(field.validator, ValueOf(name))) =>
                          /\ called
                          /\ name \in InvalidNames
                          /\ ErrorOf(name) = "Failed custom validation"

C18_Witness ==
    /\ validated.called
    /\ Len(schema) = 2
    /\ schema[1] = [name |-> "age", required |-> TRUE, field_type |-> "INTEGER",
                    validator |-> "bool"]
    /\ schema[2].validator = "bool"
    /\ validated.validator_calls = <<"email">>
    /\ InvalidFields = <<<<"age", "Invalid type: expected integer">>,
                         <<"email", "Failed custom validation">>>>

\* C19: for every event the classifier puts in validation_error/low, the
\* pipeline's decision is log_only with priority 5 and executing it returns
\* success=true with details.log_level = 'INFO', on each decision path
\* (AIAgentService.process and EventRouter.route).
C19_ValidationErrorPipeline ==
    (/\ pipeline.called
     /\ EventCategory[pipeline.analysis.category] = "validation_error"
     /\ AnalysisSeverityLevel[pipeline.analysis.severity] = "low") =>
        /\ pipeline.decision.action = "log_only"
        /\ pipeline.decision.priority = 5
        /\ ~pipeline.response.raised
        /\ "success" \in DOMAIN pipeline.response.result
        /\ pipeline.response.result.success = TRUE
        /\ pipeline.response.result.details.log_level = "INFO"

\* The middleware is enabled by the settings it was built from.
AgentConfigured ==
    /\ Get(settings, "AI_AGENT_ENABLED", TRUE)
    /\ "AI_AGENT_ENDPOINT" \in DOMAIN settings
    /\ settings.AI_AGENT_ENDPOINT # ""

SendsAt == {i \in DOMAIN handling.trace : handling.trace[i].kind = "send"}

\* C20: with the middleware enabled (AI_AGENT_ENABLED true and
\* AI_AGENT_ENDPOINT configured), every call of process_exception makes
\* exactly one call of _send_to_agent_service, with the collected context and
\* after the exception was logged locally; with the endpoint not configured or
\* the feature disabled, no send is attempted.
C20_ExactlyOneSend ==
    /\ (handling.pc # "idle" /\ handling.entry = "process_exception"
           /\ ~AgentConfigured) => SendsAt = {}
    /\ (handling.pc = "returned" /\ handling.entry = "process_exception"
           /\ AgentConfigured) =>
          /\ Cardinality(SendsAt) = 1
          /\ \A i \in SendsAt :
                /\ handling.trace[i].json =
                       CollectExceptionContext(settings, clock, handling.request,
                                               handling.exception).context
                /\ \E k \in 1..(i - 1) :
                      handling.trace[k] = LogRecord("ERROR", "unhandled_exception")

\* C21: process_exception returns None and raises nothing, for every request
\* and exception: also when collecting the context fails, when the local log
\* line fails, and (for _send_to_agent_service, on whichever thread calls it)
\* when the POST answers non-200, times out, cannot connect or fails
\* unexpectedly.
C21_ReturnsNone ==
    handling.pc # "idle" =>
        /\ ~handling.raised
        /\ (handling.pc = "returned" /\ handling.entry = "process_exception") =>
               handling.result = NoneValue

C21_Witness ==
    /\ handling.pc = "returned"
    /\ handling.entry = "process_exception"
    /\ ~handling.request.GET.ok
    /\ handling.trace = <<LogRecord("ERROR", "middleware_error")>>
    /\ handling.result = NoneValue

\* The send threads that have ended, by the outcome of their POST
Posted == {handling.background[i].result :
              i \in {k \in DOMAIN handling.background :
                         handling.background[k].kind = "send"}}

\* C26: AsyncAIAgentExceptionMiddleware._send_to_agent_service starts a
\* thread and returns without doing the POST itself; the thread does the
\* POST, and whatever its outcome and whenever it runs, it changes nothing of
\* the calling thread: the call in progress keeps its position, raises
\* nothing, and process_exception returns None.
C26_AsyncSend ==
    /\ [](handling.pc # "idle" =>
            /\ ~handling.raised
            /\ (handling.pc = "returned" /\ handling.entry = "process_exception") =>
                   handling.result = NoneValue)
    /\ [][/\ (/\ middleware.class = "AsyncAIAgentExceptionMiddleware"
               /\ handling.pc = "send" /\ handling'.pc # "send") =>
                  /\ handling'.pc = AfterSend(handling)
                  /\ Len(handling'.threads) = Len(handling.threads) + 1
                  /\ handling'.trace = Append(handling.trace, LogRecord("DEBUG", "queued"))
                  /\ handling'.background = handling.background
          /\ Len(handling'.threads) < Len(handling.threads) =>
                  /\ handling'.pc = handling.pc
                  /\ handling'.trace = handling.trace
                  /\ handling'.raised = handling.raised
                  /\ handling'.entry = handling.entry]_vars

C26_Witness ==
    /\ middleware.class = "AsyncAIAgentExceptionMiddleware"
    /\ handling.pc = "returned"
    /\ handling.entry = "process_exception"
    /\ handling.result = NoneValue
    /\ Posted = {"Timeout"}

\* C22: the action that AIAgentService.process reports for an event is one of
\* the four tokens log_only, notify_admin, trigger_workflow, escalate, so the
\* action validation of the execute stage accepts the decision.
C22_AnalyzeActionToken ==
    (pipeline.called /\ pipeline.path = "AIAgentService.process") =>
        /\ pipeline.decision.action \in Handlers
        /\ "action" \notin SerializerErrors(pipeline.data)

\* C23: when urls.py reads the views module, each of the five routes is bound
\* to the function that implements the route (a definition whose body builds
\* Responses), and every request served gets a Response.
C23_RoutesBound ==
    urlconf.imported =>
        /\ \A route \in DOMAIN UrlPatterns : urlconf.urlpatterns[route].body = "view"
        /\ "served" \in DOMAIN urlconf =>
               /\ ~urlconf.served.outcome.raised
               /\ urlconf.served.outcome.response.status \in {200, 400, 500}

\* C24: every outcome returned by ActionExecutor.execute has an action field
\* that is one of the four Action tokens and equals the action requested,
\* also when it reports failure (unknown action, fault inside a handler).
C24_OutcomeAction ==
    (outcome.called /\ outcome.via = "ActionExecutor.execute" /\ ~outcome.raised) =>
        /\ outcome.result.action \in Handlers
        /\ outcome.result.action = request.action

\* The request fails input validation: a required field is missing, the
\* action or the severity is not one of the allowed tokens, or the priority is
\* outside 1..5.
FailsValidation(data) ==
    \/ {"action", "priority", "event_type", "severity", "message"} \ DOMAIN data # {}
    \/ data.action \notin {ActionType[m] : m \in DOMAIN ActionType}
    \/ data.severity \notin {SeverityLevel[m] : m \in DOMAIN SeverityLevel}
    \/ data.priority \notin 1..5

C27_ExecutionTime ==
    [][(~outcome.called /\ outcome'.called /\ outcome'.via = "ActionExecutor.execute") =>
          /\ executor' = executor
          /\ ~outcome'.raised
          /\ outcome'.result.execution_time = IsoFormat(executor.execution_time)]_vars

C27_Witness ==
    /\ outcome.called
    /\ outcome.via = "ActionExecutor.execute"
    /\ request.action = "trigger_workflow"
    /\ outcome.result.success
    /\ executor.execution_time = 0
    /\ clock = 1
    /\ outcome.result.execution_time = "T+0"

\* The order of the severities: low < medium < high < critical
SeverityRank == [LOW |-> 1, MEDIUM |-> 2, HIGH |-> 3, CRITICAL |-> 4]

\* C28: in a router with the default table, the event that was routed would
\* get a priority number no greater at any higher severity and no smaller at
\* any lower severity: raising the severity never lowers the urgency.
C28_MonotonePriority ==
    (custom_rules = <<>> /\ routed.called) =>
        \A s \in DOMAIN SeverityLevel :
            LET other == RouteDecision(routing_rules, [routed.event EXCEPT !.severity = s])
                here == SeverityRank[routed.event.severity]
            IN  /\ SeverityRank[s] > here => other.priority <= routed.decision.priority
                /\ SeverityRank[s] < here => other.priority >= routed.decision.priority

C28_Witness ==
    /\ custom_rules = <<>>
    /\ routed.called
    /\ routed.event.event_type = "VALIDATION_ERROR"
    /\ routed.event.severity = "MEDIUM"
    /\ routed.decision.priority = 4
    /\ RouteDecision(routing_rules, [routed.event EXCEPT !.severity = "LOW"]).priority = 5
    /\ RouteDecision(routing_rules, [routed.event EXCEPT !.severity = "HIGH"]).priority = 3

\* The payloads that have the message of p (or, like p, none) and any
\* error_type, stack_trace and context.
SameMessage(p) ==
    {[k \in (DOMAIN q) \ (IF "message" \in DOMAIN p THEN {} ELSE {"message"}) |-> q[k]] :
        q \in [error_type : ErrorTypes \cup {"DatabaseError"},
               message : {Get(p, "message", <<>>)},
               stack_trace : {<<>>, <<"T", "i", "m", "e", "o", "u", "t">>},
               context : {<<>>, [field |-> "unauthorized"]}]}

\* C29: the classification depends on the message only: every payload with
\* the message of the analyzed one, whatever its error_type, stack_trace and
\* context, gets the same category, severity, confidence and reasoning.
C29_MessageOnly ==
    analysis.called =>
        \A q \in SameMessage(payload) :
            /\ Analyze(q).category = analysis.category
            /\ Analyze(q).severity = analysis.severity
            /\ Analyze(q).confidence = analysis.confidence
            /\ Analyze(q).reasoning = analysis.reasoning

C29_Witness ==
    /\ analysis.called
    /\ payload.error_type = "AuthenticationError"
    /\ payload.message = <<"i", "n", "v", "a", "l", "i", "d">>
    /\ analysis.category = "VALIDATION_ERROR"
    /\ Analyze([error_type |-> "DatabaseError", message |-> payload.message,
                stack_trace |-> <<"T", "i", "m", "e", "o", "u", "t">>,
                context |-> [field |-> "unauthorized"]]).category = "VALIDATION_ERROR"

\* C30: after construction the routing table is fixed. No step of a route or
\* get_routing_summary call changes routing_rules or custom_rules, a route call
\* leaves the event it was given as it was passed (metadata.original_context is
\* the context passed in), and under every interleaving of the calls of several
\* threads each call returns what a call running alone on that router returns.
C30_FixedRoutingTable ==
    /\ [](/\ routing_rules = InitializeRoutingRules(custom_rules)
          /\ \A t \in Callers :
                calls[t].pc = "returned" =>
                    IF calls[t].entry = "route"
                    THEN /\ calls[t].decision =
                                RouteDecision(routing_rules, calls[t].argument)
                         /\ calls[t].event = calls[t].argument
                         /\ calls[t].decision.metadata.original_context =
                                calls[t].argument.context
                    ELSE calls[t].summary = GetRoutingSummary(routing_rules))
    /\ [][/\ routing_rules' = routing_rules
          /\ custom_rules' = custom_rules
          /\ \A t \in Callers :
                (calls[t].pc # "idle" /\ calls'[t].pc # "idle"
                     /\ calls[t].entry = "route")
                    => calls'[t].event = calls[t].argument]_vars

\* One thread's route call has returned its decision while another thread's
\* route call on the same event type and severity row is between its steps,
\* on a router built with an override.
C30_Witness ==
    /\ custom_rules # <<>>
    /\ \E t, u \in Callers :
        /\ t # u
        /\ calls[t].pc = "returned" /\ calls[t].entry = "route"
        /\ calls[t].decision.action = "TRIGGER_WORKFLOW"
        /\ calls[u].pc = "build_metadata"
        /\ calls[u].event = calls[t].argument
====
